---------------------------- MODULE Spec2Model ----------------------------
(***************************************************************************)
(* A model of the compression-algorithms library: the RLE codec (rle.hpp), *)
(* the bit-stream writer and reader and the Huffman codec (huffman.hpp),   *)
(* the Rice codec (rice.hpp) and the LZW codec (lzw.hpp).                  *)
(*                                                                         *)
(* Every codec is a pair of one-shot functions over byte buffers.  Each    *)
(* function is an operator that walks its input exactly as the C++ loop    *)
(* does; each codec has its own specification (SpecRLE, SpecWriter, ...)   *)
(* whose initial states draw the inputs and whose actions apply the        *)
(* functions.  The variables of the other codecs stay at their idle value. *)
(***************************************************************************)
EXTENDS Integers, Sequences, FiniteSets, TLC

VARIABLES
    ubTrap,         \* environment: an out-of-bounds access traps (TRUE) or strays (FALSE)
    \* ---- rle.hpp ----
    wordBytes,      \* sizeof(UWord): 1, or 2 under RLE_WORD_SIZE_16
    rleInput,       \* the caller's input buffer, as a list of <<length, byte>> runs
    rlePc,          \* "start" | "encoded" | "decoded"
    rleOutSize,     \* outSizeBytes given to easyEncode
    rleEnc,         \* what easyEncode returned and wrote
    rleInSize,      \* inSizeBytes given to easyDecode
    rleDecSize,     \* outSizeBytes given to easyDecode
    rleDec,         \* what easyDecode returned and wrote

    rleStray,       \* environment: the byte a read past the end of a buffer yields
    \* ---- huffman.hpp BitStreamWriter (rice.hpp Encoder holds the same code) ----
    bsw,            \* the writer object: its fields, and what became of its stores
    bswBits,        \* the bits handed to the append calls since construction or release
    bswCalls,       \* the number of calls made on the writer
    bswReleased,    \* whether release() has been called
    \* ---- rice.hpp ----
    riceInput,      \* the caller's uncompressed bytes
    ricePc,         \* "start" | "encoded" | "decoded"
    riceEnc,        \* what rice::easyEncode handed back
    riceDecSize,    \* uncompressedSizeBytes given to rice::easyDecode
    riceDec,        \* what rice::easyDecode returned and wrote
    \* ---- huffman.hpp Encoder / Decoder ----
    huffInput,      \* the caller's uncompressed bytes
    huffPc,         \* "start" | "queued" | "encoded" | "decoded"
    huffNodes,      \* Encoder::nodes, the valid entries
    huffQueue,      \* buildHuffmanTree's pQueue, the indices of the queued nodes
    huffTreeError,  \* whether addInnerNode ran the error hook
    huffEnc,        \* what huffman::easyEncode handed back
    huffDecSize,    \* uncompressedSizeBytes given to huffman::easyDecode
    huffDec,        \* what huffman::easyDecode returned and wrote
    \* ---- lzw.hpp (section 4.4 of the specification) ----
    lzwInput,       \* the caller's uncompressed bytes
    lzwPc,          \* "start" | "encoded" | "decoded"
    lzwEnc,         \* what the LZW encoder handed back
    lzwDec,         \* what the LZW decoder returned and wrote
    \* ---- the entry points, called with arguments of any kind ----
    entry,          \* the last call: the function, its arguments, what it did
    \* ---- huffman.hpp BitStreamReader (rice.hpp Decoder holds the same code) ----
    reader          \* a reader over a written stream, and what its calls returned

rleVars == <<wordBytes, rleInput, rlePc, rleOutSize, rleEnc, rleInSize, rleDecSize, rleDec,
            rleStray>>
bswVars == <<bsw, bswBits, bswCalls, bswReleased>>
riceVars == <<riceInput, ricePc, riceEnc, riceDecSize, riceDec>>
huffVars == <<huffInput, huffPc, huffNodes, huffQueue, huffTreeError, huffEnc,
              huffDecSize, huffDec>>
lzwVars == <<lzwInput, lzwPc, lzwEnc, lzwDec>>
vars == <<ubTrap, rleVars, bswVars, riceVars, huffVars, lzwVars, entry, reader>>

\* What the actions of one component leave alone.
notRle == <<bswVars, riceVars, huffVars, lzwVars, entry, reader>>
notBsw == <<rleVars, riceVars, huffVars, lzwVars, entry, reader>>
notRice == <<rleVars, bswVars, huffVars, lzwVars, entry, reader>>
notHuff == <<rleVars, bswVars, riceVars, lzwVars, entry, reader>>
notLzw == <<rleVars, bswVars, riceVars, huffVars, entry, reader>>

(***************************************************************************)
(* Integer helpers: C++ unsigned arithmetic on naturals.                   *)
(***************************************************************************)
RECURSIVE Pow2(_)
Pow2(n) == IF n = 0 THEN 1 ELSE 2 * Pow2(n - 1)

BitAt(v, i) == (v \div Pow2(i)) % 2

CeilDiv(a, b) == (a + b - 1) \div b

Min(a, b) == IF a < b THEN a ELSE b

RECURSIVE SumSeq(_)
SumSeq(s) == IF s = <<>> THEN 0 ELSE Head(s) + SumSeq(Tail(s))

\* a | b on unsigned integers.
RECURSIVE BitOr(_, _)
BitOr(a, b) ==
    IF a = 0 THEN b
    ELSE IF b = 0 THEN a
    ELSE (IF a % 2 = 1 \/ b % 2 = 1 THEN 1 ELSE 0) + 2 * BitOr(a \div 2, b \div 2)

\* Bit `pos` of the two's complement -bit (0 <= bit < 2^30): -bit is all ones
\* above bit 29 and 2^30 - bit below.
NegBit(bit, pos) ==
    IF bit = 0 THEN 0 ELSE IF pos >= 30 THEN 1 ELSE BitAt(Pow2(30) - bit, pos)

\* A std::uint64_t is the set of the positions (0..63) of its one bits.
U64(n) == {i \in 0..30 : BitAt(n, i) = 1}

U64Bit(num, i) == IF i \in num THEN 1 ELSE 0

\* The int a uint64 below 2^31 converts to.
RECURSIVE U64ToInt(_)
U64ToInt(num) ==
    IF num = {} THEN 0
    ELSE LET i == CHOOSE j \in num : TRUE IN Pow2(i) + U64ToInt(num \ {i})

(***************************************************************************)
(* RLE: rle.hpp                                                            *)
(***************************************************************************)

\* Mutant of MaxRunLength: a limit one too large, which the count word cannot hold.
MaxRunLength_OffByOne(w) == Pow2(8 * w)

\* The largest run one packet can hold: 0xFF, or 0xFFFF under RLE_WORD_SIZE_16.
MaxRunLength(w) == Pow2(8 * w) - 1

\* sizeof(UWord) + sizeof(UByte)
PacketSize(w) == w + 1

\* The input buffer is kept as runs so that inputs longer than MaxRunLength
\* stay small in the state; the codec reads it byte by byte through ByteAt.
RECURSIVE RunsLen(_)
RunsLen(runs) == IF runs = <<>> THEN 0 ELSE Head(runs)[1] + RunsLen(Tail(runs))

RECURSIVE ByteAt(_, _)
ByteAt(runs, i) ==
    IF i < Head(runs)[1] THEN Head(runs)[2] ELSE ByteAt(Tail(runs), i - Head(runs)[1])

\* writeData<T>: the value's bytes in memory order (little-endian), output advanced.
WriteData(val, size) == [k \in 1..size |-> (val \div Pow2(8 * (k - 1))) % 256]

\* Mutant of RleEncInit: rleByte starts at 0 instead of the first input byte.
RleEncInit_ZeroByte(runs) ==
    [ret |-> 0, bytesWritten |-> 0, rleCount |-> 0, rleByte |-> 0, out |-> <<>>]

\* The state of easyEncode's locals before the loop (lines 97-99).
RleEncInit(runs) ==
    [ret |-> 0, bytesWritten |-> 0, rleCount |-> 0, rleByte |-> ByteAt(runs, 0), out |-> <<>>]

\* Mutant of RleFlush: a packet that exactly fills the buffer is refused.
RleFlush_NoExactFit(s, w, outSize) ==
    IF s.bytesWritten + PacketSize(w) >= outSize
    THEN [s EXCEPT !.ret = -1]
    ELSE [s EXCEPT !.bytesWritten = @ + PacketSize(w),
                   !.out = @ \o WriteData(s.rleCount, w) \o WriteData(s.rleByte, 1)]

\* The flush of one packet (lines 108-116 and 123-128): -1 when it does not fit.
RleFlush(s, w, outSize) ==
    IF s.bytesWritten + PacketSize(w) > outSize
    THEN [s EXCEPT !.ret = -1]
    ELSE [s EXCEPT !.bytesWritten = @ + PacketSize(w),
                   !.out = @ \o WriteData(s.rleCount, w) \o WriteData(s.rleByte, 1)]

\* Mutant of RleEncStep: a run is flushed at every byte after its first.
RleEncStep_FlushEveryByte(s, b, w, outSize) ==
    IF s.ret = -1 THEN s
    ELSE LET body == IF b # s.rleByte \/ s.rleCount # 0
                     THEN LET f == RleFlush(s, w, outSize) IN
                          IF f.ret = -1 THEN f
                          ELSE [f EXCEPT !.rleCount = 0, !.rleByte = b]
                     ELSE s
         IN  IF body.ret = -1 THEN body
             ELSE [body EXCEPT !.rleCount = (@ + 1) % Pow2(8 * w)]

\* One iteration of the for loop (lines 101-118): the body, then ++rleCount.
RleEncStep(s, b, w, outSize) ==
    IF s.ret = -1 THEN s
    ELSE LET body == IF b # s.rleByte \/ s.rleCount = MaxRunLength(w)
                     THEN LET f == RleFlush(s, w, outSize) IN
                          IF f.ret = -1 THEN f
                          ELSE [f EXCEPT !.rleCount = 0, !.rleByte = b]
                     ELSE s
         IN  IF body.ret = -1 THEN body
             ELSE [body EXCEPT !.rleCount = (@ + 1) % Pow2(8 * w)]

\* Iterations lo .. hi-1 of the for loop, in order.
RECURSIVE RleEncLoop(_, _, _, _, _, _)
RleEncLoop(s, runs, lo, hi, w, outSize) ==
    IF hi <= lo THEN s
    ELSE IF hi = lo + 1 THEN RleEncStep(s, ByteAt(runs, lo), w, outSize)
    ELSE LET mid  == (lo + hi) \div 2
             left == RleEncLoop(s, runs, lo, mid, w, outSize)
         IN  IF left.ret = -1 THEN left
             ELSE RleEncLoop(left, runs, mid, hi, w, outSize)

\* Mutant of RleEasyEncode: the run left after the loop is not flushed.
RleEasyEncode_NoLastFlush(runs, inSizeBytes, w, outSize) ==
    IF inSizeBytes <= 0 \/ outSize <= 0 THEN [ret |-> -1, out |-> <<>>]
    ELSE LET s == RleEncLoop(RleEncInit(runs), runs, 0, inSizeBytes, w, outSize)
         IN  [ret |-> IF s.ret = -1 THEN -1 ELSE s.bytesWritten, out |-> s.out]

\* rle::easyEncode on non-null buffers: [ret, out], out the bytes written.
RleEasyEncode(runs, inSizeBytes, w, outSize) ==
    IF inSizeBytes <= 0 \/ outSize <= 0 THEN [ret |-> -1, out |-> <<>>]
    ELSE LET s == RleEncLoop(RleEncInit(runs), runs, 0, inSizeBytes, w, outSize)
             r == IF s.ret # -1 /\ s.rleCount # 0 THEN RleFlush(s, w, outSize) ELSE s
         IN  [ret |-> IF r.ret = -1 THEN -1 ELSE r.bytesWritten, out |-> r.out]

\* readData<T>: the value held by `size` bytes at input offset `at`.  A byte past
\* the end of the caller's buffer is whatever the memory there holds (stray).
ReadByteAt(buf, at, stray) == IF at < Len(buf) THEN buf[at + 1] ELSE stray

RECURSIVE ReadData(_, _, _, _)
ReadData(buf, at, size, stray) ==
    IF size = 0 THEN 0
    ELSE ReadByteAt(buf, at, stray) + 256 * ReadData(buf, at + 1, size - 1, stray)

\* The state of easyDecode's locals before the loop (lines 145-147).  readEnd is
\* one past the highest input offset read, oobWrite whether a byte was stored at
\* an output index >= outSizeBytes, trapped whether that store killed the process.
RleDecInit ==
    [ret |-> 0, bytesWritten |-> 0, rleCount |-> 0, rleByte |-> 0, out |-> <<>>,
     readEnd |-> 0, oobWrite |-> FALSE, trapped |-> FALSE]

\* One iteration of while (rleCount--) (lines 155-163), entered with rleCount # 0.
RleDecCopy(s, w, outSize, trap) ==
    IF s.ret = -1 \/ s.trapped THEN s
    ELSE LET inside == s.bytesWritten < outSize
             count  == (s.rleCount + Pow2(8 * w) - 1) % Pow2(8 * w)
             n      == s.bytesWritten + 1
         IN  IF ~inside /\ trap THEN [s EXCEPT !.oobWrite = TRUE, !.trapped = TRUE]
             ELSE [s EXCEPT !.rleCount = count,
                            !.out = IF inside THEN Append(@, s.rleByte) ELSE @,
                            !.oobWrite = @ \/ ~inside,
                            !.bytesWritten = n,
                            !.ret = IF n = outSize /\ count # 0 THEN -1 ELSE @]

\* `n` iterations of the while loop, in order.
RECURSIVE RleDecCopies(_, _, _, _, _)
RleDecCopies(s, n, w, outSize, trap) ==
    IF n <= 0 THEN s
    ELSE IF n = 1 THEN RleDecCopy(s, w, outSize, trap)
    ELSE LET h    == n \div 2
             left == RleDecCopies(s, h, w, outSize, trap)
         IN  IF left.ret = -1 \/ left.trapped THEN left
             ELSE RleDecCopies(left, n - h, w, outSize, trap)

\* One iteration of the for loop (lines 149-164): read a packet at offset i and
\* replicate it.  The while loop's last test leaves rleCount wrapped to all ones.
RleDecPacket(s, buf, i, w, outSize, stray, trap) ==
    IF s.ret = -1 \/ s.trapped THEN s
    ELSE LET count == ReadData(buf, i, w, stray)
             byte  == ReadByteAt(buf, i + w, stray)
             r     == RleDecCopies([s EXCEPT !.rleCount = count, !.rleByte = byte,
                                             !.readEnd = i + PacketSize(w)],
                                   count, w, outSize, trap)
         IN  IF r.ret = -1 \/ r.trapped THEN r
             ELSE [r EXCEPT !.rleCount = Pow2(8 * w) - 1]

\* Packets number lo .. hi-1 of the for loop (i = packet number * packet size).
RECURSIVE RleDecLoop(_, _, _, _, _, _, _, _)
RleDecLoop(s, buf, lo, hi, w, outSize, stray, trap) ==
    IF hi <= lo THEN s
    ELSE IF hi = lo + 1
         THEN RleDecPacket(s, buf, lo * PacketSize(w), w, outSize, stray, trap)
    ELSE LET mid  == (lo + hi) \div 2
             left == RleDecLoop(s, buf, lo, mid, w, outSize, stray, trap)
         IN  IF left.ret = -1 \/ left.trapped THEN left
             ELSE RleDecLoop(left, buf, mid, hi, w, outSize, stray, trap)

\* Mutant of RleEasyDecode: outSizeBytes is not tested.
RleEasyDecode_NoOutSizeTest(buf, inSizeBytes, w, outSize, stray, trap) ==
    IF inSizeBytes <= 0
    THEN [RleDecInit EXCEPT !.ret = -1]
    ELSE LET s == RleDecLoop(RleDecInit, buf, 0, CeilDiv(inSizeBytes, PacketSize(w)),
                             w, outSize, stray, trap)
         IN  IF s.ret = -1 \/ s.trapped THEN s ELSE [s EXCEPT !.ret = s.bytesWritten]

\* rle::easyDecode on non-null buffers.  The loop runs while i < inSizeBytes, i
\* stepping by the packet size: CeilDiv(inSizeBytes, packet size) iterations.
RleEasyDecode(buf, inSizeBytes, w, outSize, stray, trap) ==
    IF inSizeBytes <= 0 \/ outSize <= 0
    THEN [RleDecInit EXCEPT !.ret = -1]
    ELSE LET s == RleDecLoop(RleDecInit, buf, 0, CeilDiv(inSizeBytes, PacketSize(w)),
                             w, outSize, stray, trap)
         IN  IF s.ret = -1 \/ s.trapped THEN s ELSE [s EXCEPT !.ret = s.bytesWritten]

(***************************************************************************)
(* The bit-stream writer: huffman.hpp BitStreamWriter.  rice.hpp Encoder   *)
(* repeats internalInit, allocate, allocBytes, nextPowerOfTwo, appendBit,  *)
(* setGranularity, release, getByteCount and getBitCount line for line.    *)
(*                                                                         *)
(* A writer is a record of the class's fields; stream is the heap buffer   *)
(* (<<>> for the null pointer).  Two more fields record what the stores    *)
(* did: oob, a store went to an address outside the buffer, and dead, that *)
(* store trapped and the process is gone (ubTrap decides which).           *)
(***************************************************************************)

\* nextPowerOfTwo: --num, smear the top bit down (i = 1, 2, 4, 8, 16), ++num.
RECURSIVE Smear(_, _)
Smear(num, i) == IF i >= 32 THEN num ELSE Smear(BitOr(num, num \div Pow2(i)), 2 * i)

NextPowerOfTwo(num) == Smear(num - 1, 1) + 1

\* Mutant of AllocBytes: no memset, the new bytes hold what the heap held.
AllocBytes_NoMemset(bytesWanted, oldPtr, oldSize) ==
    [i \in 1..bytesWanted |-> IF oldPtr # <<>> /\ i <= oldSize THEN oldPtr[i] ELSE 255]

\* allocBytes: a zeroed block, the old block's bytes copied into its start.
AllocBytes(bytesWanted, oldPtr, oldSize) ==
    [i \in 1..bytesWanted |-> IF oldPtr # <<>> /\ i <= oldSize THEN oldPtr[i] ELSE 0]

\* internalInit
InternalInit ==
    [stream |-> <<>>, bytesAllocated |-> 0, granularity |-> 2, currBytePos |-> 0,
     nextBitPos |-> 0, numBitsWritten |-> 0, oob |-> FALSE, dead |-> FALSE]

\* Mutant of SetGranularity: the value is taken as given.
SetGranularity_AsGiven(w, growthGranularity) ==
    [w EXCEPT !.granularity = growthGranularity]

\* setGranularity
SetGranularity(w, growthGranularity) ==
    [w EXCEPT !.granularity = IF growthGranularity >= 2 THEN growthGranularity ELSE 2]

\* allocate(bitsWanted)
Allocate(w, bitsWanted) ==
    LET atLeast     == IF bitsWanted <= 0 THEN 8 ELSE bitsWanted
        rounded     == IF atLeast % 8 # 0 THEN NextPowerOfTwo(atLeast) ELSE atLeast
        sizeInBytes == rounded \div 8
    IN  IF sizeInBytes <= w.bytesAllocated THEN w
        ELSE [w EXCEPT !.stream = AllocBytes(sizeInBytes, w.stream, w.bytesAllocated),
                       !.bytesAllocated = sizeInBytes]

\* BitStreamWriter() and BitStreamWriter(initialSizeInBits, growthGranularity)
WriterDefault == Allocate(InternalInit, 8192)

WriterSized(initialSizeInBits, growthGranularity) ==
    Allocate(SetGranularity(InternalInit, growthGranularity), initialSizeInBits)

\* (byte & ~mask) | (-bit & mask) with mask = 1 << pos, stored into a uint8.
SetBit(byte, pos, bit) ==
    (byte - BitAt(byte, pos) * Pow2(pos)) + NegBit(bit, pos) * Pow2(pos)

\* appendBit: store the bit at stream[currBytePos], count it, step the position and
\* grow the buffer when the position reaches its end.
AppendBit(w, bit) ==
    IF w.dead THEN w
    ELSE LET inside == w.currBytePos < w.bytesAllocated
             stored == [w EXCEPT !.stream = IF inside
                                            THEN [@ EXCEPT ![w.currBytePos + 1] =
                                                      SetBit(@, w.nextBitPos, bit)]
                                            ELSE @,
                                 !.oob = @ \/ ~inside,
                                 !.numBitsWritten = @ + 1]
         IN  IF ~inside /\ ubTrap THEN [w EXCEPT !.oob = TRUE, !.dead = TRUE]
             ELSE IF w.nextBitPos + 1 = 8
                  THEN LET moved == [stored EXCEPT !.nextBitPos = 0, !.currBytePos = @ + 1]
                       IN  IF moved.currBytePos = moved.bytesAllocated
                           THEN Allocate(moved, moved.bytesAllocated * moved.granularity * 8)
                           ELSE moved
                  ELSE [stored EXCEPT !.nextBitPos = @ + 1]

\* appendBitsU64: bits b = from .. bitCount-1 of num, least significant first.
RECURSIVE AppendBitsFrom(_, _, _, _)
AppendBitsFrom(w, num, from, bitCount) ==
    IF from >= bitCount \/ w.dead THEN w
    ELSE AppendBitsFrom(AppendBit(w, U64Bit(num, from)), num, from + 1, bitCount)

AppendBitsU64(w, num, bitCount) == AppendBitsFrom(w, num, 0, bitCount)

\* Code::getBit and BitStreamWriter::appendCode: bits 0 .. length-1 of the code.
GetBit(code, index) == U64Bit(code.bits, index)

RECURSIVE AppendCodeFrom(_, _, _)
AppendCodeFrom(w, code, from) ==
    IF from >= code.length \/ w.dead THEN w
    ELSE AppendCodeFrom(AppendBit(w, GetBit(code, from)), code, from + 1)

AppendCode(w, code) == AppendCodeFrom(w, code, 0)

\* Mutant of GetByteCount: the leftover bits are not rounded up to a byte.
GetByteCount_NoRound(w) == w.numBitsWritten \div 8

\* getByteCount, getBitCount (the assert of getByteCount is AssertUsedBytes)
GetByteCount(w) ==
    LET usedBytes == w.numBitsWritten \div 8
        leftovers == w.numBitsWritten % 8
    IN  IF leftovers # 0 THEN usedBytes + 1 ELSE usedBytes

GetBitCount(w) == w.numBitsWritten

AssertUsedBytes(w) == GetByteCount(w) <= w.bytesAllocated

\* release: the writer after the call (the old stream goes to the caller).
Release(w) == InternalInit

(***************************************************************************)
(* rice.hpp: the Rice codec.  rice::Encoder holds the writer's code        *)
(* (internalInit, allocate, appendBit, getByteCount, release) word for     *)
(* word, so the writer operators above stand for it.                       *)
(***************************************************************************)

\* computeCodeLength
ComputeCodeLength(value, KBits) ==
    LET m == Pow2(KBits)
        q == value \div m
    IN  q + 1 + KBits

\* The inner loop of findBestKBits: outputSize for one k.
RECURSIVE OutputSize(_, _, _)
OutputSize(input, i, k) ==
    IF i > Len(input) THEN 0
    ELSE ComputeCodeLength(input[i], k) + OutputSize(input, i + 1, k)

\* Mutant of FindBestStep: the comparison is turned around.
FindBestStep_Greater(best, outputSize, k) ==
    IF best.bestSize = 0 \/ outputSize > best.bestSize
    THEN [bestSize |-> outputSize, bestKBits |-> k]
    ELSE best

\* The body of the outer loop of findBestKBits after outputSize is summed.
FindBestStep(best, outputSize, k) ==
    IF best.bestSize = 0 \/ outputSize < best.bestSize
    THEN [bestSize |-> outputSize, bestKBits |-> k]
    ELSE best

RECURSIVE FindBestFrom(_, _, _, _)
FindBestFrom(best, input, k, KBitsMax) ==
    IF k > KBitsMax THEN best
    ELSE FindBestFrom(FindBestStep(best, OutputSize(input, 1, k), k), input, k + 1, KBitsMax)

\* findBestKBits: the return value (bestKBits) and *outBestSizeBits (bestSize).
FindBestKBits(input, KBitsMax) ==
    FindBestFrom([bestSize |-> 0, bestKBits |-> 0], input, 0, KBitsMax)

\* writeKBitsWord: bits b .. bitCount-1 of KBits, least significant first.
RECURSIVE WriteKBitsFrom(_, _, _, _)
WriteKBitsFrom(w, KBits, b, bitCount) ==
    IF b >= bitCount \/ w.dead THEN w
    ELSE WriteKBitsFrom(AppendBit(w, BitAt(KBits, b)), KBits, b + 1, bitCount)

WriteKBitsWord(w, KBits, bitCount) == WriteKBitsFrom(w, KBits, 0, bitCount)

\* encodeByte: q one bits, a zero bit, then bits KBits-1 .. 0 of the value.
RECURSIVE AppendOnes(_, _)
AppendOnes(w, q) ==
    IF q = 0 \/ w.dead THEN w ELSE AppendOnes(AppendBit(w, 1), q - 1)

RECURSIVE AppendRemainder(_, _, _)
AppendRemainder(w, value, i) ==
    IF i < 0 \/ w.dead THEN w
    ELSE AppendRemainder(AppendBit(w, BitAt(value, i)), value, i - 1)

EncodeByte(w, value, KBits) ==
    LET m     == Pow2(KBits)
        q     == value \div m
        ones  == AppendOnes(w, q)
        ended == IF ones.dead THEN ones ELSE AppendBit(ones, 0)
    IN  AppendRemainder(ended, value, KBits - 1)

RECURSIVE EncodeBytes(_, _, _, _)
EncodeBytes(w, input, b, KBits) ==
    IF b > Len(input) \/ w.dead THEN w
    ELSE EncodeBytes(EncodeByte(w, input[b], KBits), input, b + 1, KBits)

\* rice::easyEncode for a non-null input of at least one byte: what the caller
\* gets (the buffer, or no buffer when release() hands back nullptr, and the two
\* sizes), whether the call crashed, and what its stores and assert did.
RiceEasyEncode(input) ==
    LET best   == FindBestKBits(input, 8)
        KBits  == best.bestKBits
        enc0   == WriterSized(best.bestSize, 2)
        enc1   == WriteKBitsWord(enc0, KBits, 4)
        enc2   == EncodeBytes(enc1, input, 1, KBits)
    IN  [KBits                |-> KBits,
         minCompressedBitSize |-> best.bestSize,
         crashed              |-> enc2.dead,
         oob                  |-> enc2.oob,
         assertFailed         |-> ~enc2.dead /\ ~AssertUsedBytes(enc2),
         null                 |-> enc2.bytesAllocated = 0,
         compressed           |-> enc2.stream,
         compressedSizeBytes  |-> IF enc2.dead THEN 0 ELSE GetByteCount(enc2),
         compressedSizeBits   |-> IF enc2.dead THEN 0 ELSE GetBitCount(enc2)]

\* Decoder::reset and Decoder::readNextBit: the bit read (ok) or the end of the
\* stream (~ok); a byte outside the buffer reads as `stray`.
DecoderReset == [currBytePos |-> 0, nextBitPos |-> 0, numBitsRead |-> 0]

StreamByte(stream, pos, stray) ==
    IF pos < Len(stream) THEN stream[pos + 1] ELSE stray

\* Mutant of ReadNextBit: the end of the stream is found one bit late.
ReadNextBit_OneBitLate(d, stream, sizeInBits, stray) ==
    IF d.numBitsRead > sizeInBits
    THEN [ok |-> FALSE, bit |-> 0, d |-> d]
    ELSE [ok  |-> TRUE,
          bit |-> BitAt(StreamByte(stream, d.currBytePos, stray), d.nextBitPos),
          d   |-> IF d.nextBitPos + 1 = 8
                  THEN [d EXCEPT !.nextBitPos = 0, !.currBytePos = @ + 1,
                                 !.numBitsRead = @ + 1]
                  ELSE [d EXCEPT !.nextBitPos = @ + 1, !.numBitsRead = @ + 1]]

ReadNextBit(d, stream, sizeInBits, stray) ==
    IF d.numBitsRead >= sizeInBits
    THEN [ok |-> FALSE, bit |-> 0, d |-> d]
    ELSE [ok  |-> TRUE,
          bit |-> BitAt(StreamByte(stream, d.currBytePos, stray), d.nextBitPos),
          d   |-> IF d.nextBitPos + 1 = 8
                  THEN [d EXCEPT !.nextBitPos = 0, !.currBytePos = @ + 1,
                                 !.numBitsRead = @ + 1]
                  ELSE [d EXCEPT !.nextBitPos = @ + 1, !.numBitsRead = @ + 1]]

\* Decoder::readKBitsWord: bits b .. bitCount-1, least significant first; the
\* error hook is called and the loop left when the stream ends.
RECURSIVE ReadKBitsFrom(_, _, _, _, _, _, _)
ReadKBitsFrom(d, num, b, bitCount, stream, sizeInBits, stray) ==
    IF b >= bitCount THEN [num |-> num, d |-> d, error |-> FALSE]
    ELSE LET r == ReadNextBit(d, stream, sizeInBits, stray)
         IN  IF ~r.ok THEN [num |-> num, d |-> d, error |-> TRUE]
             ELSE ReadKBitsFrom(r.d, num + r.bit * Pow2(b), b + 1, bitCount,
                                stream, sizeInBits, stray)

ReadKBitsWord(d, bitCount, stream, sizeInBits, stray) ==
    ReadKBitsFrom(d, 0, 0, bitCount, stream, sizeInBits, stray)

\* easyDecode, "Reconstruct q": one bits are counted until a zero bit or the end.
RECURSIVE RiceReadQ(_, _, _, _, _)
RiceReadQ(d, q, stream, sizeInBits, stray) ==
    LET r == ReadNextBit(d, stream, sizeInBits, stray)
    IN  IF r.ok /\ r.bit = 1 THEN RiceReadQ(r.d, q + 1, stream, sizeInBits, stray)
        ELSE [q |-> q, d |-> r.d]

\* easyDecode, "Reconstruct the remainder": bits KBits-1 .. 0 are or-ed in.
RECURSIVE RiceReadRemainder(_, _, _, _, _, _)
RiceReadRemainder(d, value, i, stream, sizeInBits, stray) ==
    IF i < 0 THEN [value |-> value, d |-> d, error |-> FALSE]
    ELSE LET r == ReadNextBit(d, stream, sizeInBits, stray)
         IN  IF ~r.ok THEN [value |-> value, d |-> d, error |-> TRUE]
             ELSE RiceReadRemainder(r.d, value + r.bit * Pow2(i), i - 1,
                                    stream, sizeInBits, stray)

\* Mutant of RiceDecLoop: a full buffer is reported through the error hook.
RECURSIVE RiceDecLoop_FullIsError(_, _, _, _, _, _, _)
RiceDecLoop_FullIsError(d, out, KBits, stream, sizeInBits, outSize, stray) ==
    LET rq    == RiceReadQ(d, 0, stream, sizeInBits, stray)
        rr    == RiceReadRemainder(rq.d, Pow2(KBits) * rq.q, KBits - 1,
                                   stream, sizeInBits, stray)
        wrote == Append(out, rr.value % 256)
    IN  IF rr.error THEN [ret |-> Len(out), out |-> out, error |-> TRUE]
        ELSE IF Len(wrote) = outSize THEN [ret |-> Len(wrote), out |-> wrote, error |-> TRUE]
        ELSE RiceDecLoop_FullIsError(rr.d, wrote, KBits, stream, sizeInBits, outSize, stray)

\* easyDecode, the for (;;) loop: one byte per turn until the buffer is full or
\* the remainder cannot be read.
RECURSIVE RiceDecLoop(_, _, _, _, _, _, _)
RiceDecLoop(d, out, KBits, stream, sizeInBits, outSize, stray) ==
    LET rq    == RiceReadQ(d, 0, stream, sizeInBits, stray)
        rr    == RiceReadRemainder(rq.d, Pow2(KBits) * rq.q, KBits - 1,
                                   stream, sizeInBits, stray)
        wrote == Append(out, rr.value % 256)
    IN  IF rr.error THEN [ret |-> Len(out), out |-> out, error |-> TRUE]
        ELSE IF Len(wrote) = outSize THEN [ret |-> Len(wrote), out |-> wrote, error |-> FALSE]
        ELSE RiceDecLoop(rr.d, wrote, KBits, stream, sizeInBits, outSize, stray)

\* rice::easyDecode: the return value, the bytes written, whether RICE_ERROR ran.
RiceEasyDecode(compressed, null, compressedSizeBytes, compressedSizeBits, outSize, stray) ==
    IF null \/ compressedSizeBytes <= 0 \/ compressedSizeBits <= 0 \/ outSize <= 0
    THEN [ret |-> 0, out |-> <<>>, error |-> TRUE]
    ELSE LET kb == ReadKBitsWord(DecoderReset, 4, compressed, compressedSizeBits, stray)
         IN  RiceDecLoop(kb.d, <<>>, kb.num, compressed, compressedSizeBits, outSize, stray)

(***************************************************************************)
(* huffman.hpp: codes, the tree nodes and the encoder.                     *)
(***************************************************************************)

Nil == -1
MaxSymbols == 256
MaxNodes == MaxSymbols + 512
MaxBits == 64

\* Code::clear, Code::appendBit, Code::appendCode.  A code is its 64-bit word
\* (the set of its one bits) and its length.
ClearCode == [bits |-> {}, length |-> 0]

CodeIsFull(code) == code.length = MaxBits

\* Mutant of CodeAppendBit: the bit appended is always 0.
CodeAppendBit_Zero(code, bit) ==
    IF CodeIsFull(code) THEN code
    ELSE [bits |-> code.bits \ {code.length}, length |-> code.length + 1]

CodeAppendBit(code, bit) ==
    IF CodeIsFull(code) THEN code
    ELSE [bits   |-> IF bit = 1 THEN code.bits \cup {code.length}
                                ELSE code.bits \ {code.length},
          length |-> code.length + 1]

RECURSIVE CodeAppendFrom(_, _, _)
CodeAppendFrom(code, other, b) ==
    IF b >= other.length THEN code
    ELSE CodeAppendFrom(CodeAppendBit(code, GetBit(other, b)), other, b + 1)

\* Mutant of CodeAppendCode: nothing is inherited.
CodeAppendCode_Nothing(code, other) == code

CodeAppendCode(code, other) == CodeAppendFrom(code, other, 0)

\* A default-constructed Node, and the nodes array as the function of its valid
\* (frequency != Nil) entries.
DefaultNode ==
    [frequency |-> Nil, leftChild |-> Nil, rightChild |-> Nil, value |-> Nil,
     code |-> ClearCode]

NodeAt(nodes, n) == IF n \in DOMAIN nodes THEN nodes[n] ELSE DefaultNode

IsValid(nodes, n) == NodeAt(nodes, n).frequency # Nil

\* countFrequencies: one turn of the loop per input byte.
RECURSIVE CountFrequenciesFrom(_, _, _)
CountFrequenciesFrom(nodes, data, i) ==
    IF i > Len(data) THEN nodes
    ELSE LET nodeIndex == data[i]
             counted   ==
                 IF ~IsValid(nodes, nodeIndex)
                 THEN (nodeIndex :> [DefaultNode EXCEPT !.frequency = 1,
                                                        !.value = nodeIndex]) @@ nodes
                 ELSE [nodes EXCEPT ![nodeIndex].frequency = @ + 1]
         IN  CountFrequenciesFrom(counted, data, i + 1)

CountFrequencies(data) == CountFrequenciesFrom(<<>>, data, 1)

\* buildHuffmanTree, first loop: the valid symbol nodes pushed on the queue.
SymbolQueue(nodes) == {sym \in 0..(MaxSymbols - 1) : IsValid(nodes, sym)}

\* The nodes pQueue.top() can return: those of the lowest frequency.
QueueTops(nodes, queue) ==
    {n \in queue : \A m \in queue : nodes[n].frequency <= nodes[m].frequency}

\* Mutant of AddInnerNode: a pool of two inner nodes.
AddInnerNode_TwoSlots(nodes, frequency, leftChild, rightChild) ==
    LET free == {n \in MaxSymbols..(MaxSymbols + 1) : ~IsValid(nodes, n)}
    IN  IF free = {} THEN [nodes |-> nodes, at |-> MaxSymbols + 1, error |-> TRUE]
        ELSE LET n == CHOOSE k \in free : \A m \in free : k <= m
             IN  [nodes |-> (n :> [frequency |-> frequency, leftChild |-> leftChild,
                                   rightChild |-> rightChild, value |-> n,
                                   code |-> ClearCode]) @@ nodes,
                  at    |-> n,
                  error |-> FALSE]

\* addInnerNode: the first free slot from MaxSymbols on is filled; with no free
\* slot the error hook runs and the last node is returned.
AddInnerNode(nodes, frequency, leftChild, rightChild) ==
    LET free == {n \in MaxSymbols..(MaxNodes - 1) : ~IsValid(nodes, n)}
    IN  IF free = {} THEN [nodes |-> nodes, at |-> MaxNodes - 1, error |-> TRUE]
        ELSE LET n == CHOOSE k \in free : \A m \in free : k <= m
             IN  [nodes |-> (n :> [frequency |-> frequency, leftChild |-> leftChild,
                                   rightChild |-> rightChild, value |-> n,
                                   code |-> ClearCode]) @@ nodes,
                  at    |-> n,
                  error |-> FALSE]

\* recursiveAssignCodes on the encoder t = [nodes, error]: the parent's code,
\* then the node's bit, then the children; error records a code that was full.
RECURSIVE RecursiveAssignCodes(_, _, _, _)
RecursiveAssignCodes(t, node, parent, bit) ==
    LET own       == t.nodes[node].code
        inherited == IF parent # Nil THEN CodeAppendCode(own, t.nodes[parent].code) ELSE own
        full      == \/ (parent # Nil /\ own.length + t.nodes[parent].code.length > MaxBits)
                     \/ CodeIsFull(inherited)
        coded     == [nodes |-> [t.nodes EXCEPT ![node].code = CodeAppendBit(inherited, bit)],
                      error |-> t.error \/ full]
        left      == IF coded.nodes[node].leftChild # Nil
                     THEN RecursiveAssignCodes(coded, coded.nodes[node].leftChild, node, 0)
                     ELSE coded
    IN  IF left.nodes[node].rightChild # Nil
        THEN RecursiveAssignCodes(left, left.nodes[node].rightChild, node, 1)
        ELSE left

\* Mutant of BitsForInteger: the ceiling of the logarithm to base 2.
RECURSIVE BitsForInteger_CeilLog2(_)
BitsForInteger_CeilLog2(num) ==
    IF num > 1 THEN 1 + BitsForInteger_CeilLog2((num + 1) \div 2) ELSE 0

\* Mutant of BitsForInteger: one bit too few.
RECURSIVE BitsForInteger_OneLess(_)
BitsForInteger_OneLess(num) ==
    IF num > 1 THEN 1 + BitsForInteger_OneLess(num \div 2) ELSE 0

\* bitsForInteger
RECURSIVE BitsForInteger(_)
BitsForInteger(num) ==
    IF num > 0 THEN 1 + BitsForInteger(num \div 2) ELSE 0

\* writeTreeBitStream, "find the longest code".
\* (The loops over the 256 symbols run their turns lo .. hi-1 in order, split in
\* halves.)
RECURSIVE MaxCodeLength(_, _, _, _)
MaxCodeLength(nodes, lo, hi, longest) ==
    IF hi <= lo THEN longest
    ELSE IF hi = lo + 1
    THEN IF IsValid(nodes, lo) /\ NodeAt(nodes, lo).code.length > longest
         THEN NodeAt(nodes, lo).code.length ELSE longest
    ELSE LET mid  == (lo + hi) \div 2
             left == MaxCodeLength(nodes, lo, mid, longest)
         IN  IF left < 0 THEN left ELSE MaxCodeLength(nodes, mid, hi, left)

\* Mutant of WriteTreeCode: the code's bits are written from its last bit on.
WriteTreeCode_LastBitFirst(t, nodes, sym, codeLengthWidth) ==
    LET code    == NodeAt(nodes, sym).code
        codeLen == code.length
        lenOut  == AppendBitsU64(t.w, U64(codeLen), codeLengthWidth)
        bitsOut == AppendBitsU64(lenOut, {codeLen - 1 - b : b \in code.bits}, codeLen)
    IN  [w |-> bitsOut, treePrefixBits |-> t.treePrefixBits + codeLengthWidth + codeLen]

\* writeTreeBitStream, "output the 256 nodes": t = [w, treePrefixBits].
WriteTreeCode(t, nodes, sym, codeLengthWidth) ==
    LET code    == NodeAt(nodes, sym).code
        codeLen == code.length
        lenOut  == AppendBitsU64(t.w, U64(codeLen), codeLengthWidth)
        bitsOut == AppendBitsU64(lenOut, code.bits, codeLen)
    IN  [w |-> bitsOut, treePrefixBits |-> t.treePrefixBits + codeLengthWidth + codeLen]

RECURSIVE WriteTreeCodes(_, _, _, _, _)
WriteTreeCodes(t, nodes, lo, hi, codeLengthWidth) ==
    IF t.w.dead \/ hi <= lo THEN t
    ELSE IF hi = lo + 1 THEN WriteTreeCode(t, nodes, lo, codeLengthWidth)
    ELSE LET mid  == (lo + hi) \div 2
             left == WriteTreeCodes(t, nodes, lo, mid, codeLengthWidth)
         IN  IF left.w.dead THEN left
             ELSE WriteTreeCodes(left, nodes, mid, hi, codeLengthWidth)

\* Mutant of WriteTreePadding: no padding is written.
WriteTreePadding_None(t) == t

\* writeTreeBitStream, "pad to a full byte".
RECURSIVE WriteTreePadding(_)
WriteTreePadding(t) ==
    IF t.w.dead \/ t.treePrefixBits % 8 = 0 THEN t
    ELSE WriteTreePadding([w |-> AppendBit(t.w, 0), treePrefixBits |-> t.treePrefixBits + 1])

\* writeTreeBitStream: the writer after it, treePrefixBits, and whether the error
\* hook ran.
WriteTreeBitStream(w, nodes) ==
    LET maxCodeLengthInBits == MaxCodeLength(nodes, 0, MaxSymbols, 0)
    IN  IF maxCodeLengthInBits <= 0 \/ maxCodeLengthInBits > MaxBits
        THEN [w |-> w, treePrefixBits |-> 0, error |-> TRUE]
        ELSE LET numberOfCodes   == MaxSymbols
                 codeLengthWidth == BitsForInteger(maxCodeLengthInBits)
                 counts == AppendBitsU64(AppendBitsU64(w, U64(numberOfCodes), 16),
                                         U64(codeLengthWidth), 16)
                 codes  == WriteTreeCodes([w |-> counts, treePrefixBits |-> 32],
                                          nodes, 0, MaxSymbols, codeLengthWidth)
                 padded == WriteTreePadding(codes)
             IN  [w |-> padded.w, treePrefixBits |-> padded.treePrefixBits, error |-> FALSE]

\* writeDataBitStream: the code of every input byte, in order.
RECURSIVE WriteDataFrom(_, _, _, _)
WriteDataFrom(w, nodes, data, i) ==
    IF w.dead \/ i > Len(data) THEN w
    ELSE WriteDataFrom(AppendCode(w, NodeAt(nodes, data[i]).code), nodes, data, i + 1)

WriteDataBitStream(w, nodes, data) == WriteDataFrom(w, nodes, data, 1)

\* The Encoder constructor from the finished queue on (treeRoot is its one node)
\* and the rest of huffman::easyEncode: what the caller is handed.
HuffEasyEncode(nodes, treeRoot, treeError, data) ==
    LET coded  == RecursiveAssignCodes([nodes |-> nodes, error |-> treeError],
                                       treeRoot, Nil, 0)
        tree   == WriteTreeBitStream(WriterDefault, coded.nodes)
        stream == WriteDataBitStream(tree.w, coded.nodes, data)
    IN  [nodes               |-> coded.nodes,
         treeRoot            |-> treeRoot,
         treePrefixBits      |-> tree.treePrefixBits,
         error               |-> coded.error \/ tree.error,
         crashed             |-> stream.dead,
         oob                 |-> stream.oob,
         null                |-> stream.bytesAllocated = 0,
         compressed          |-> stream.stream,
         compressedSizeBytes |-> IF stream.dead THEN 0 ELSE GetByteCount(stream),
         compressedSizeBits  |-> IF stream.dead THEN 0 ELSE GetBitCount(stream)]

(***************************************************************************)
(* huffman.hpp: the bit-stream reader and the decoder.                     *)
(***************************************************************************)

\* BitStreamReader::reset.  error records a run of the error hook.
ReaderReset ==
    [currBytePos |-> 0, nextBitPos |-> 0, numBitsRead |-> 0, currCode |-> ClearCode,
     error |-> FALSE]

ClearReaderCode(r) == [r EXCEPT !.currCode = ClearCode]

\* Mutant of BsrReadNextBit: the bits of a byte are read from the most
\* significant one down.
BsrReadNextBit_MsbFirst(r, stream, sizeInBits, stray) ==
    IF r.numBitsRead >= sizeInBits THEN [ok |-> FALSE, r |-> r]
    ELSE LET bit   == BitAt(StreamByte(stream, r.currBytePos, stray), 7 - r.nextBitPos)
             moved == IF r.nextBitPos + 1 = 8
                      THEN [r EXCEPT !.nextBitPos = 0, !.currBytePos = @ + 1,
                                     !.numBitsRead = @ + 1]
                      ELSE [r EXCEPT !.nextBitPos = @ + 1, !.numBitsRead = @ + 1]
         IN  [ok |-> TRUE,
              r  |-> [moved EXCEPT !.currCode = CodeAppendBit(@, bit),
                                   !.error = @ \/ CodeIsFull(r.currCode)]]

\* BitStreamReader::readNextBit: the bit is appended to currCode (Code::appendBit
\* calls the error hook and drops the bit when the code is full).
BsrReadNextBit(r, stream, sizeInBits, stray) ==
    IF r.numBitsRead >= sizeInBits THEN [ok |-> FALSE, r |-> r]
    ELSE LET bit   == BitAt(StreamByte(stream, r.currBytePos, stray), r.nextBitPos)
             moved == IF r.nextBitPos + 1 = 8
                      THEN [r EXCEPT !.nextBitPos = 0, !.currBytePos = @ + 1,
                                     !.numBitsRead = @ + 1]
                      ELSE [r EXCEPT !.nextBitPos = @ + 1, !.numBitsRead = @ + 1]
         IN  [ok |-> TRUE,
              r  |-> [moved EXCEPT !.currCode = CodeAppendBit(@, bit),
                                   !.error = @ \/ CodeIsFull(r.currCode)]]

\* Up to `count` readNextBit calls; ended is set when the stream ended first.
RECURSIVE ReadBits(_, _, _, _, _)
ReadBits(r, count, stream, sizeInBits, stray) ==
    IF count <= 0 THEN [r |-> r, ended |-> FALSE]
    ELSE LET n == BsrReadNextBit(r, stream, sizeInBits, stray)
         IN  IF ~n.ok THEN [r |-> r, ended |-> TRUE]
             ELSE ReadBits(n.r, count - 1, stream, sizeInBits, stray)

\* The number of turns a loop `for (l = 0; l < num; ++l)` that stops at the end of
\* the stream can make: num, or more than the stream holds.
LoopCount(num, sizeInBits) ==
    IF \E i \in num : i >= 30 THEN sizeInBits + 1 ELSE Min(U64ToInt(num), sizeInBits + 1)

\* BitStreamReader::readBitsU64
ReadBitsU64(r, bitCount, stream, sizeInBits, stray) ==
    LET read == ReadBits(ClearReaderCode(r), bitCount, stream, sizeInBits, stray)
    IN  [num |-> read.r.currCode.bits,
         r   |-> [read.r EXCEPT !.error = @ \/ read.ended]]

\* readPrefixData, one turn of the loop over the codes and the loop:
\* d = [r, codes, treePrefixBits, failed].
ReadPrefixCode(d, c, codeLengthWidth, stream, sizeInBits, stray) ==
         LET len  == ReadBits(ClearReaderCode(d.r), LoopCount(codeLengthWidth, sizeInBits),
                              stream, sizeInBits, stray)
             codeBitsWidth == len.r.currCode.bits
             bits == ReadBits(ClearReaderCode(len.r), LoopCount(codeBitsWidth, sizeInBits),
                              stream, sizeInBits, stray)
         IN  IF len.ended
             THEN [d EXCEPT !.r = [len.r EXCEPT !.error = TRUE], !.failed = TRUE]
             ELSE IF bits.ended
             THEN [d EXCEPT !.r = [bits.r EXCEPT !.error = TRUE], !.failed = TRUE]
             ELSE [r              |-> bits.r,
                   codes          |-> [d.codes EXCEPT ![c] = bits.r.currCode],
                   treePrefixBits |-> (d.treePrefixBits + U64ToInt(codeLengthWidth)
                                       + U64ToInt(codeBitsWidth)) % 8,
                   failed         |-> FALSE]

RECURSIVE ReadPrefixCodes(_, _, _, _, _, _, _)
ReadPrefixCodes(d, lo, hi, codeLengthWidth, stream, sizeInBits, stray) ==
    IF d.failed \/ hi <= lo THEN d
    ELSE IF hi = lo + 1 THEN ReadPrefixCode(d, lo, codeLengthWidth, stream, sizeInBits, stray)
    ELSE LET mid  == (lo + hi) \div 2
             left == ReadPrefixCodes(d, lo, mid, codeLengthWidth, stream, sizeInBits, stray)
         IN  IF left.failed THEN left
             ELSE ReadPrefixCodes(left, mid, hi, codeLengthWidth, stream, sizeInBits, stray)

\* readPrefixData, "padding left that must be skipped".
RECURSIVE ReadPrefixPadding(_, _, _, _, _)
ReadPrefixPadding(r, treePrefixBits, stream, sizeInBits, stray) ==
    IF treePrefixBits % 8 = 0 THEN r
    ELSE ReadPrefixPadding(BsrReadNextBit(r, stream, sizeInBits, stray).r,
                           treePrefixBits + 1, stream, sizeInBits, stray)

\* Decoder::Decoder and readPrefixData: the reader and the codes array after it.
\* treePrefixBits is kept modulo 8, which is all the padding loop reads of it.
ReadPrefixData(stream, sizeInBits, stray) ==
    LET noCodes         == [c \in 0..(MaxSymbols - 1) |-> ClearCode]
        numberOfCodes   == ReadBitsU64(ReaderReset, 16, stream, sizeInBits, stray)
        codeLengthWidth == ReadBitsU64(numberOfCodes.r, 16, stream, sizeInBits, stray)
    IN  IF numberOfCodes.num # U64(MaxSymbols)
        THEN [r |-> [codeLengthWidth.r EXCEPT !.error = TRUE], codes |-> noCodes]
        ELSE LET read == ReadPrefixCodes([r |-> codeLengthWidth.r, codes |-> noCodes,
                                          treePrefixBits |-> 32 % 8, failed |-> FALSE],
                                         0, MaxSymbols, codeLengthWidth.num, stream, sizeInBits, stray)
             IN  IF read.failed THEN [r |-> read.r, codes |-> read.codes]
                 ELSE [r     |-> ClearReaderCode(
                                    ReadPrefixPadding(ClearReaderCode(read.r),
                                                      read.treePrefixBits,
                                                      stream, sizeInBits, stray)),
                       codes |-> read.codes]

\* findMatchingCode: the first index whose code equals `code`, or Nil.
FindMatchingCode(codes, code) ==
    LET matching == {c \in 0..(MaxSymbols - 1) : codes[c] = code}
    IN  IF matching = {} THEN Nil
        ELSE CHOOSE c \in matching : \A other \in matching : c <= other

\* Decoder::decode: the while (readNextBit()) loop.  The result carries the codes
\* array the Decoder held.
RECURSIVE DecodeLoop(_, _, _, _, _, _, _)
DecodeLoop(r, codes, out, dataSizeBytes, stream, sizeInBits, stray) ==
    LET n == BsrReadNextBit(r, stream, sizeInBits, stray)
    IN  IF ~n.ok THEN [ret |-> Len(out), out |-> out, error |-> r.error, codes |-> codes]
        ELSE LET codeIndex == FindMatchingCode(codes, n.r.currCode)
             IN  IF codeIndex = Nil
                 THEN DecodeLoop(n.r, codes, out, dataSizeBytes, stream, sizeInBits, stray)
                 ELSE IF Len(out) = dataSizeBytes
                 THEN [ret |-> Len(out), out |-> out, error |-> TRUE, codes |-> codes]
                 ELSE DecodeLoop(ClearReaderCode(n.r), codes, Append(out, codeIndex % 256),
                                 dataSizeBytes, stream, sizeInBits, stray)

\* huffman::easyDecode: the return value, the bytes written, whether
\* HUFFMAN_ERROR ran, the codes array its Decoder held (empty when the call was
\* refused before a Decoder was made) and the bits readPrefixData had read when
\* decode() was called.
HuffEasyDecode(compressed, null, compressedSizeBytes, compressedSizeBits, outSize, stray) ==
    IF null \/ compressedSizeBytes <= 0 \/ compressedSizeBits <= 0 \/ outSize <= 0
    THEN [ret |-> 0, out |-> <<>>, error |-> TRUE, codes |-> <<>>, prefixBits |-> 0]
    ELSE LET decoder == ReadPrefixData(compressed, compressedSizeBits, stray)
         IN  [prefixBits |-> decoder.r.numBitsRead]
             @@ DecodeLoop(decoder.r, decoder.codes, <<>>, outSize,
                           compressed, compressedSizeBits, stray)

(***************************************************************************)
(* The LZW codec.  lzw.hpp is not among the sources; the encoder and the   *)
(* decoder are those of section 4.4 of the specification, over the bit     *)
(* stream writer and reader above.                                         *)
(***************************************************************************)

\* Codes 0..255 are the bytes, new entries start at 256, the dictionary holds
\* 4096 entries, codes are 9 to 12 bits wide.
LzwFirstCode == 256
LzwMaxEntries == 4096
LzwStartBits == 9
LzwMaxBits == 12

\* The encoder: w (the current match, Nil when empty, else its code), the
\* dictionary (<<code(w), c>> -> code), next_code, the width, the bit stream,
\* and the widths the codes were emitted at so far.
LzwEncInit ==
    [w |-> Nil, dict |-> <<>>, nextCode |-> LzwFirstCode, width |-> LzwStartBits,
     bs |-> WriterDefault, widths |-> <<>>]

\* "emit the code for w using the current width"
LzwEmit(e) ==
    [e EXCEPT !.bs = AppendBitsU64(@, U64(e.w), e.width), !.widths = Append(@, e.width)]

\* "add w + c to the dictionary as a new entry (code(w), c)"; a full dictionary is
\* reset instead, with the width back to 9; adding an entry that makes
\* next_code = 2^width widens the following emissions.
LzwEncAdd(e, c) ==
    IF e.nextCode = LzwMaxEntries
    THEN [e EXCEPT !.dict = <<>>, !.nextCode = LzwFirstCode, !.width = LzwStartBits]
    ELSE [e EXCEPT !.dict = (<<e.w, c>> :> e.nextCode) @@ @,
                   !.nextCode = @ + 1,
                   !.width = IF e.nextCode + 1 = Pow2(@) /\ @ < LzwMaxBits THEN @ + 1 ELSE @]

\* The encoder's turn for one input byte c.
LzwEncStep(e, c) ==
    IF e.w = Nil THEN [e EXCEPT !.w = c]
    ELSE IF <<e.w, c>> \in DOMAIN e.dict THEN [e EXCEPT !.w = e.dict[<<e.w, c>>]]
    ELSE [LzwEncAdd(LzwEmit(e), c) EXCEPT !.w = c]

\* The turns for the bytes lo+1 .. hi of the input, in order, split in halves.
RECURSIVE LzwEncLoop(_, _, _, _)
LzwEncLoop(e, data, lo, hi) ==
    IF e.bs.dead \/ hi <= lo THEN e
    ELSE IF hi = lo + 1 THEN LzwEncStep(e, data[hi])
    ELSE LET mid  == (lo + hi) \div 2
             left == LzwEncLoop(e, data, lo, mid)
         IN  IF left.bs.dead THEN left ELSE LzwEncLoop(left, data, mid, hi)

\* The encoder on a non-empty input: all bytes, then "emit the code for the
\* final w"; the caller gets the stream, its byte count and its bit count.
LzwEasyEncode(data) ==
    LET looped == LzwEncLoop(LzwEncInit, data, 0, Len(data))
        ended  == IF looped.bs.dead THEN looped ELSE LzwEmit(looped)
    IN  [crashed             |-> ended.bs.dead,
         oob                 |-> ended.bs.oob,
         null                |-> ended.bs.bytesAllocated = 0,
         compressed          |-> ended.bs.stream,
         compressedSizeBytes |-> IF ended.bs.dead THEN 0 ELSE GetByteCount(ended.bs),
         compressedSizeBits  |-> IF ended.bs.dead THEN 0 ELSE GetBitCount(ended.bs),
         widths              |-> ended.widths]

\* The decoder: the reader, the table (entry i is <<prefix code, suffix byte>> of
\* code 255 + i), the width, prev (Nil before the first code), the output, and
\* the widths the codes were read at so far.
LzwDecInit ==
    [r |-> ReaderReset, entries |-> <<>>, width |-> LzwStartBits, prev |-> Nil,
     out |-> <<>>, error |-> FALSE, done |-> FALSE, widths |-> <<>>]

LzwNextCode(d) == LzwFirstCode + Len(d.entries)

\* The string of a code: the string of its prefix, then its suffix byte.
RECURSIVE LzwString(_, _)
LzwString(entries, code) ==
    IF code < LzwFirstCode THEN <<code>>
    ELSE Append(LzwString(entries, entries[code - LzwFirstCode + 1][1]),
                entries[code - LzwFirstCode + 1][2])

\* "After each decoded string, add prev + string[0] to the dictionary (unless
\* full - then reset as above)"; "when next_code becomes 2^width - 1 after an
\* insertion, the next read uses width+1".
LzwDecAdd(d, first) ==
    IF d.prev = Nil THEN d
    ELSE IF LzwNextCode(d) = LzwMaxEntries
    THEN [d EXCEPT !.entries = <<>>, !.width = LzwStartBits]
    ELSE [d EXCEPT !.entries = Append(@, <<d.prev, first>>),
                   !.width = IF LzwNextCode(d) + 1 = Pow2(@) - 1 /\ @ < LzwMaxBits
                             THEN @ + 1 ELSE @]

\* One turn of the decoder: it stops when bit_count bits are consumed or the
\* output is full; else a code is read at the current width, its string (prev +
\* prev[0] when the code is next_code) goes to the output as far as it fits, and
\* the dictionary is extended.  A code that cannot be read or looked up is an error.
LzwDecStep(d, stream, sizeInBits, outSize, stray) ==
    IF d.r.numBitsRead >= sizeInBits \/ Len(d.out) >= outSize
    THEN [d EXCEPT !.done = TRUE]
    ELSE LET read == ReadBitsU64(d.r, d.width, stream, sizeInBits, stray)
             code == U64ToInt(read.num)
         IN  IF \/ read.r.error
                \/ (d.prev = Nil /\ code >= LzwFirstCode)
                \/ code > LzwNextCode(d)
             THEN [d EXCEPT !.r = read.r, !.error = TRUE, !.done = TRUE,
                            !.widths = Append(@, d.width)]
             ELSE LET string == IF code = LzwNextCode(d)
                                THEN LET prevString == LzwString(d.entries, d.prev)
                                     IN  Append(prevString, prevString[1])
                                ELSE LzwString(d.entries, code)
                      room   == outSize - Len(d.out)
                  IN  [LzwDecAdd(d, string[1]) EXCEPT
                           !.r = read.r,
                           !.out = @ \o SubSeq(string, 1, Min(Len(string), room)),
                           !.prev = code,
                           !.widths = Append(@, d.width)]

\* Up to `turns` turns of the decoder, split in halves.
RECURSIVE LzwDecLoop(_, _, _, _, _, _)
LzwDecLoop(d, turns, stream, sizeInBits, outSize, stray) ==
    IF d.done \/ turns <= 0 THEN d
    ELSE IF turns = 1 THEN LzwDecStep(d, stream, sizeInBits, outSize, stray)
    ELSE LET left == LzwDecLoop(d, turns \div 2, stream, sizeInBits, outSize, stray)
         IN  IF left.done THEN left
             ELSE LzwDecLoop(left, turns - (turns \div 2), stream, sizeInBits, outSize, stray)

\* The decoder on a stream, its byte count, its bit count and an output buffer
\* of outSize bytes (a turn consumes at least one bit or ends the loop).
LzwEasyDecode(compressed, null, compressedSizeBytes, compressedSizeBits, outSize, stray) ==
    IF null \/ compressedSizeBytes <= 0 \/ compressedSizeBits <= 0 \/ outSize <= 0
    THEN [ret |-> 0, out |-> <<>>, error |-> TRUE, widths |-> <<>>]
    ELSE LET d == LzwDecLoop(LzwDecInit, compressedSizeBits + 1, compressed,
                             compressedSizeBits, outSize, stray)
         IN  [ret |-> Len(d.out), out |-> d.out, error |-> d.error, widths |-> d.widths]

(***************************************************************************)
(* The RLE specification: an input is drawn, encoded, and the encoding is  *)
(* decoded.                                                                *)
(***************************************************************************)

\* Bounds of the RLE inputs: the number of runs an input is made of.
RleMaxRuns == 3

RleBytes == {0, 255}

\* Run lengths around the packet limit of the 8-bit build; the 16-bit build is
\* explored on short runs only (its limit is 65535 bytes away).
RleRunLengths(w) == IF w = 1 THEN {1, MaxRunLength(w), MaxRunLength(w) + 1} ELSE {1, 2}

RleInputs(w) ==
    UNION {[1..k -> RleRunLengths(w) \X RleBytes] : k \in 1..RleMaxRuns}

\* The input as the byte sequence it stands for.
RleBytesOf(runs) == [i \in 1..RunsLen(runs) |-> ByteAt(runs, i - 1)]

RleIdle == [ret |-> 0, out |-> <<>>]

RleInit ==
    /\ wordBytes \in {1, 2}
    /\ rleInput \in RleInputs(wordBytes)
    /\ rleStray = 0
    /\ rlePc = "start"
    /\ rleOutSize = 0
    /\ rleEnc = RleIdle
    /\ rleInSize = 0
    /\ rleDecSize = 0
    /\ rleDec = RleDecInit

\* The caller encodes the input into a buffer of outSizeBytes bytes.
RleEncode ==
    /\ rlePc = "start"
    /\ \E cap \in {PacketSize(wordBytes) * RunsLen(rleInput), 2, 5} :
          /\ rleOutSize' = cap
          /\ rleEnc' = RleEasyEncode(rleInput, RunsLen(rleInput), wordBytes, cap)
    /\ rlePc' = "encoded"
    /\ UNCHANGED <<ubTrap, wordBytes, rleInput, rleInSize, rleDecSize, rleDec, rleStray, notRle>>

\* The caller decodes the bytes easyEncode returned into a buffer of its own,
\* passing their number as inSizeBytes, or one less with a buffer of the input's
\* length; what an access outside a buffer does (trap or stray, and the byte
\* read) shows here.
RleDecode ==
    /\ rlePc = "encoded"
    /\ rleEnc.ret > 0
    /\ \E cap \in {RunsLen(rleInput) - 1, RunsLen(rleInput), RunsLen(rleInput) + 1},
          size \in {rleEnc.ret, rleEnc.ret - 1}, trap \in BOOLEAN, stray \in {0} :
          /\ cap > 0
          /\ size # rleEnc.ret => (cap = RunsLen(rleInput) /\ ~trap)
          /\ rleInSize' = size
          /\ rleDecSize' = cap
          /\ ubTrap' = trap
          /\ rleStray' = stray
          /\ rleDec' = RleEasyDecode(rleEnc.out, size, wordBytes, cap, stray, trap)
    /\ rlePc' = "decoded"
    /\ UNCHANGED <<wordBytes, rleInput, rleOutSize, rleEnc, notRle>>

RleNext == RleEncode \/ RleDecode

\* The writer while another component runs: no object exists.
BswIdle ==
    /\ bsw = InternalInit
    /\ bswBits = <<>>
    /\ bswCalls = 0
    /\ bswReleased = FALSE

\* The Rice codec while another component runs: nothing has been called.
RiceEncIdle ==
    [KBits |-> 0, minCompressedBitSize |-> 0, crashed |-> FALSE, oob |-> FALSE,
     assertFailed |-> FALSE, null |-> TRUE, compressed |-> <<>>,
     compressedSizeBytes |-> 0, compressedSizeBits |-> 0]

RiceDecIdle == [ret |-> 0, out |-> <<>>, error |-> FALSE]

RiceIdle ==
    /\ riceInput = <<>>
    /\ ricePc = "idle"
    /\ riceEnc = RiceEncIdle
    /\ riceDecSize = 0
    /\ riceDec = RiceDecIdle

\* The Huffman codec while another component runs: nothing has been called.
HuffEncIdle ==
    [nodes |-> <<>>, treeRoot |-> Nil, treePrefixBits |-> 0, error |-> FALSE,
     crashed |-> FALSE, oob |-> FALSE, null |-> TRUE, compressed |-> <<>>,
     compressedSizeBytes |-> 0, compressedSizeBits |-> 0]

HuffDecIdle ==
    [ret |-> 0, out |-> <<>>, error |-> FALSE, codes |-> <<>>, prefixBits |-> 0]

HuffIdle ==
    /\ huffInput = <<>>
    /\ huffPc = "idle"
    /\ huffNodes = <<>>
    /\ huffQueue = {}
    /\ huffTreeError = FALSE
    /\ huffEnc = HuffEncIdle
    /\ huffDecSize = 0
    /\ huffDec = HuffDecIdle

\* The LZW codec while another component runs: nothing has been called.
LzwEncIdle ==
    [crashed |-> FALSE, oob |-> FALSE, null |-> TRUE, compressed |-> <<>>,
     compressedSizeBytes |-> 0, compressedSizeBits |-> 0, widths |-> <<>>]

LzwDecIdle == [ret |-> 0, out |-> <<>>, error |-> FALSE, widths |-> <<>>]

LzwIdle ==
    /\ lzwInput = <<>>
    /\ lzwPc = "idle"
    /\ lzwEnc = LzwEncIdle
    /\ lzwDec = LzwDecIdle

\* No entry point has been called with arguments of its own, no reader exists.
EntryIdle == entry = [fn |-> "none"]

ReaderIdle == reader = [pc |-> "idle"]

RleSpecInit ==
    /\ ubTrap = FALSE
    /\ RleInit
    /\ BswIdle
    /\ RiceIdle
    /\ HuffIdle
    /\ LzwIdle
    /\ EntryIdle
    /\ ReaderIdle

SpecRLE == RleSpecInit /\ [][RleNext]_vars

(***************************************************************************)
(* The writer specification: a writer is constructed, then the caller      *)
(* makes up to BswMaxCalls calls on it.                                    *)
(***************************************************************************)

\* Bound: the number of calls made on one writer.
BswMaxCalls == 3

\* The constructor arguments explored: sizes below, at and above one byte, and
\* granularities below and above the minimum of 2.
BswInitialSizes == {0, 1, 5, 8, 12, 16}
BswGranularities == {1, 3}

\* The arguments of appendBitsU64 and appendCode explored.
BswNums == {U64(5), 0..63}
BswBitCounts == {0, 9, 64}
BswCodes == {[bits |-> U64(0), length |-> 1], [bits |-> U64(5), length |-> 3]}

\* The RLE codec while another component runs: nothing has been called.
RleIdleVars ==
    /\ wordBytes = 1
    /\ rleInput = <<>>
    /\ rleStray = 0
    /\ rlePc = "idle"
    /\ rleOutSize = 0
    /\ rleEnc = RleIdle
    /\ rleInSize = 0
    /\ rleDecSize = 0
    /\ rleDec = RleDecInit

BswInit ==
    /\ ubTrap \in BOOLEAN
    /\ bsw \in {WriterDefault}
             \cup {WriterSized(b, g) : b \in BswInitialSizes, g \in BswGranularities}
    /\ bswBits = <<>>
    /\ bswCalls = 0
    /\ bswReleased = FALSE
    /\ RleIdleVars
    /\ RiceIdle
    /\ HuffIdle
    /\ LzwIdle
    /\ EntryIdle
    /\ ReaderIdle

\* The bits a call hands to the writer, in order.
BitsOfNum(num, bitCount) == [b \in 1..bitCount |-> U64Bit(num, b - 1)]

\* A call is possible while the process lives and the call budget lasts.
BswCanCall == ~bsw.dead /\ bswCalls < BswMaxCalls

BswAppendBit ==
    /\ BswCanCall
    /\ \E bit \in {0, 1} :
          /\ bsw' = AppendBit(bsw, bit)
          /\ bswBits' = Append(bswBits, bit)
    /\ bswCalls' = bswCalls + 1
    /\ UNCHANGED <<ubTrap, bswReleased, notBsw>>

BswAppendBitsU64 ==
    /\ BswCanCall
    /\ \E num \in BswNums, bitCount \in BswBitCounts :
          /\ bsw' = AppendBitsU64(bsw, num, bitCount)
          /\ bswBits' = bswBits \o BitsOfNum(num, bitCount)
    /\ bswCalls' = bswCalls + 1
    /\ UNCHANGED <<ubTrap, bswReleased, notBsw>>

BswAppendCode ==
    /\ BswCanCall
    /\ \E code \in BswCodes :
          /\ bsw' = AppendCode(bsw, code)
          /\ bswBits' = bswBits \o BitsOfNum(code.bits, code.length)
    /\ bswCalls' = bswCalls + 1
    /\ UNCHANGED <<ubTrap, bswReleased, notBsw>>

\* release(): the buffer goes to the caller, the writer is reset.
BswRelease ==
    /\ BswCanCall
    /\ bsw' = Release(bsw)
    /\ bswBits' = <<>>
    /\ bswReleased' = TRUE
    /\ bswCalls' = bswCalls + 1
    /\ UNCHANGED <<ubTrap, notBsw>>

BswNext == BswAppendBit \/ BswAppendBitsU64 \/ BswAppendCode \/ BswRelease

SpecWriter == BswInit /\ [][BswNext]_vars


(***************************************************************************)
(* The Rice specification: an input is drawn, encoded by rice::easyEncode, *)
(* and what it handed back is decoded by rice::easyDecode into a buffer of *)
(* the input's size, as Test_Rice_EncodeDecode does.                       *)
(***************************************************************************)

\* Bound: the length of the inputs.
RiceMaxLen == 3

\* The bytes of the inputs: small and large values, and the powers of two between.
RiceByteValues == {0, 1, 7, 8, 17, 128, 255}

RiceInputs == UNION {[1..n -> RiceByteValues] : n \in 1..RiceMaxLen}

RiceInit ==
    /\ ubTrap \in BOOLEAN
    /\ riceInput \in RiceInputs
    /\ ricePc = "start"
    /\ riceEnc = RiceEncIdle
    /\ riceDecSize = 0
    /\ riceDec = RiceDecIdle
    /\ RleIdleVars
    /\ BswIdle
    /\ HuffIdle
    /\ LzwIdle
    /\ EntryIdle
    /\ ReaderIdle

RiceEncode ==
    /\ ricePc = "start"
    /\ riceEnc' = RiceEasyEncode(riceInput)
    /\ ricePc' = "encoded"
    /\ UNCHANGED <<ubTrap, riceInput, riceDecSize, riceDec, notRice>>

\* The caller decodes what easyEncode handed back into a buffer of
\* uncompressedSizeBytes bytes: the input's length, one less or one more.  A
\* crashed encoder hands nothing back.
RiceDecode ==
    /\ ricePc = "encoded"
    /\ ~riceEnc.crashed
    /\ \E cap \in {Len(riceInput) - 1, Len(riceInput), Len(riceInput) + 1} :
          /\ riceDecSize' = cap
          /\ riceDec' = RiceEasyDecode(riceEnc.compressed, riceEnc.null,
                                       riceEnc.compressedSizeBytes,
                                       riceEnc.compressedSizeBits, cap, 0)
    /\ ricePc' = "decoded"
    /\ UNCHANGED <<ubTrap, riceInput, riceEnc, notRice>>

RiceNext == RiceEncode \/ RiceDecode

SpecRice == RiceInit /\ [][RiceNext]_vars

(***************************************************************************)
(* The Huffman specification: an input is drawn; the Encoder constructor   *)
(* counts the frequencies and fills the queue (HuffBuildStart), merges the *)
(* two nodes on top of the queue until one is left (HuffBuildMerge: which  *)
(* of several nodes of the lowest frequency is on top is the queue's       *)
(* choice), assigns the codes and writes the stream (HuffEncode); the      *)
(* caller decodes it into a buffer of the input's size (HuffDecode), as    *)
(* Test_Huffman_EncodeDecode does.                                         *)
(***************************************************************************)

\* Bound: the length of the inputs drawn from HuffSymbols.
HuffMaxLen == 3

HuffSymbols == {0, 97, 255}

\* Longer inputs with skewed frequencies (codes of three different lengths), and
\* the tests' run of 18 equal bytes with its terminator.
HuffLongInputs ==
    {<<0, 0, 0, 0, 1, 1, 97, 255>>,
     <<7, 1, 7, 2, 7, 3, 7, 1, 7>>,
     [i \in 1..19 |-> IF i <= 18 THEN 17 ELSE 0]}

HuffInputs == UNION {[1..n -> HuffSymbols] : n \in 1..HuffMaxLen} \cup HuffLongInputs

HuffInit ==
    /\ ubTrap \in BOOLEAN
    /\ huffInput \in HuffInputs
    /\ huffPc = "start"
    /\ huffNodes = <<>>
    /\ huffQueue = {}
    /\ huffTreeError = FALSE
    /\ huffEnc = HuffEncIdle
    /\ huffDecSize = 0
    /\ huffDec = HuffDecIdle
    /\ RleIdleVars
    /\ BswIdle
    /\ RiceIdle
    /\ LzwIdle
    /\ EntryIdle
    /\ ReaderIdle

\* Encoder::Encoder: countFrequencies, and buildHuffmanTree's pushes.
HuffBuildStart ==
    /\ huffPc = "start"
    /\ huffNodes' = CountFrequencies(huffInput)
    /\ huffQueue' = SymbolQueue(huffNodes')
    /\ huffPc' = "queued"
    /\ UNCHANGED <<ubTrap, huffInput, huffTreeError, huffEnc, huffDecSize, huffDec, notHuff>>

\* buildHuffmanTree, one turn of while (pQueue.size() > 1).
HuffBuildMerge ==
    /\ huffPc = "queued"
    /\ Cardinality(huffQueue) > 1
    /\ \E child0 \in QueueTops(huffNodes, huffQueue) :
       \E child1 \in QueueTops(huffNodes, huffQueue \ {child0}) :
          LET inner == AddInnerNode(huffNodes,
                                    huffNodes[child0].frequency + huffNodes[child1].frequency,
                                    huffNodes[child0].value, huffNodes[child1].value)
          IN  /\ huffNodes' = inner.nodes
              /\ huffQueue' = (huffQueue \ {child0, child1}) \cup {inner.at}
              /\ huffTreeError' = (huffTreeError \/ inner.error)
    /\ UNCHANGED <<ubTrap, huffInput, huffPc, huffEnc, huffDecSize, huffDec, notHuff>>

\* The rest of the constructor (codes, tree and data written) and of easyEncode.
HuffEncode ==
    /\ huffPc = "queued"
    /\ Cardinality(huffQueue) = 1
    /\ \E treeRoot \in huffQueue :
          huffEnc' = HuffEasyEncode(huffNodes, treeRoot, huffTreeError, huffInput)
    /\ huffPc' = "encoded"
    /\ UNCHANGED <<ubTrap, huffInput, huffNodes, huffQueue, huffTreeError,
                   huffDecSize, huffDec, notHuff>>

\* The caller decodes what easyEncode handed back into a buffer of
\* uncompressedSizeBytes bytes: the input's length, or one less.
HuffDecode ==
    /\ huffPc = "encoded"
    /\ ~huffEnc.crashed
    /\ \E cap \in {Len(huffInput) - 1, Len(huffInput)} :
          /\ huffDecSize' = cap
          /\ huffDec' = HuffEasyDecode(huffEnc.compressed, huffEnc.null,
                                       huffEnc.compressedSizeBytes,
                                       huffEnc.compressedSizeBits, cap, 0)
    /\ huffPc' = "decoded"
    /\ UNCHANGED <<ubTrap, huffInput, huffNodes, huffQueue, huffTreeError, huffEnc, notHuff>>

HuffNext == HuffBuildStart \/ HuffBuildMerge \/ HuffEncode \/ HuffDecode

SpecHuff == HuffInit /\ [][HuffNext]_vars

(***************************************************************************)
(* The LZW specification: an input is drawn, encoded, and the stream is    *)
(* decoded into a buffer of the input's size, as Test_LZW_EncodeDecode     *)
(* does.                                                                   *)
(***************************************************************************)

\* Bound: the length of the short inputs.
LzwMaxLen == 5

LzwSymbols == {0, 255}

\* An input every two neighbouring bytes of which are a new pair, so that every
\* byte but the first adds a dictionary entry: 256-byte walks x, x+d, x+2d, ...
\* with d = 1, 3, 5, ...
LzwWalk(n) == [i \in 1..n |-> (((i - 1) % 256) * (2 * ((i - 1) \div 256) + 1)) % 256]

\* The first length at which the encoder emits a code after a reset: the
\* dictionary is full after LzwMaxEntries - LzwFirstCode entries.
LzwResetLen == (LzwMaxEntries - LzwFirstCode) + 2

LzwInputs ==
    UNION {[1..n -> LzwSymbols] : n \in 1..LzwMaxLen}
        \cup {LzwWalk(LzwResetLen - 1), LzwWalk(LzwResetLen)}

LzwInit ==
    /\ ubTrap = FALSE
    /\ lzwInput \in LzwInputs
    /\ lzwPc = "start"
    /\ lzwEnc = LzwEncIdle
    /\ lzwDec = LzwDecIdle
    /\ RleIdleVars
    /\ BswIdle
    /\ RiceIdle
    /\ HuffIdle
    /\ EntryIdle
    /\ ReaderIdle

LzwEncode ==
    /\ lzwPc = "start"
    /\ lzwEnc' = LzwEasyEncode(lzwInput)
    /\ lzwPc' = "encoded"
    /\ UNCHANGED <<ubTrap, lzwInput, lzwDec, notLzw>>

LzwDecode ==
    /\ lzwPc = "encoded"
    /\ ~lzwEnc.crashed
    /\ lzwDec' = LzwEasyDecode(lzwEnc.compressed, lzwEnc.null,
                               lzwEnc.compressedSizeBytes, lzwEnc.compressedSizeBits,
                               Len(lzwInput), 0)
    /\ lzwPc' = "decoded"
    /\ UNCHANGED <<ubTrap, lzwInput, lzwEnc, notLzw>>

LzwNext == LzwEncode \/ LzwDecode

SpecLZW == LzwInit /\ [][LzwNext]_vars

(***************************************************************************)
(* Both decoders side by side: a behaviour is one of the Rice codec or one *)
(* of the Huffman codec.                                                   *)
(***************************************************************************)

CodecsInit == RiceInit \/ HuffInit

CodecsNext == RiceNext \/ HuffNext

SpecCodecs == CodecsInit /\ [][CodecsNext]_vars

(***************************************************************************)
(* The entry points called with arguments of any kind: null or non-null    *)
(* pointers, positive or non-positive sizes.  One call is made; entry      *)
(* records the function, whether an argument was null or non-positive      *)
(* (bad), the value returned, whether the error hook ran (HUFFMAN_ERROR,   *)
(* RICE_ERROR; rle.hpp has none) and whether any output was produced.  The *)
(* hook here is one that returns, as a replaced hook may.                  *)
(***************************************************************************)

\* rle::easyEncode and rle::easyDecode from their first line.
RleEasyEncodeCall(inputNull, outputNull, runs, inSizeBytes, w, outSizeBytes) ==
    IF inputNull \/ outputNull THEN [ret |-> -1, out |-> <<>>]
    ELSE RleEasyEncode(runs, inSizeBytes, w, outSizeBytes)

RleEasyDecodeCall(inputNull, outputNull, buf, inSizeBytes, w, outSizeBytes, stray, trap) ==
    IF inputNull \/ outputNull THEN [RleDecInit EXCEPT !.ret = -1]
    ELSE RleEasyDecode(buf, inSizeBytes, w, outSizeBytes, stray, trap)

\* huffman::easyEncode and rice::easyEncode, the two tests they start with: TRUE
\* when the call runs the error hook and returns with nothing done.
HuffEasyEncodeRefuses(uncompressedNull, compressedNull, uncompressedSizeBytes, sizeBytesNull, sizeBitsNull) ==
    \/ uncompressedNull \/ compressedNull
    \/ uncompressedSizeBytes <= 0 \/ sizeBytesNull \/ sizeBitsNull

RiceEasyEncodeRefuses(uncompressedNull, compressedNull, uncompressedSizeBytes, sizeBytesNull, sizeBitsNull) ==
    \/ uncompressedNull \/ compressedNull
    \/ uncompressedSizeBytes <= 0 \/ sizeBytesNull \/ sizeBitsNull

\* The data the caller holds: three equal bytes.  The encoders are first called
\* with the right arguments (RleEncode, RiceEncode, HuffBuildStart, HuffEncode),
\* which gives the streams the decoders are then called on.
ArgsData == <<1, 1, 1>>

ArgsRuns == <<<<3, 1>>>>

\* Sizes a caller may pass where `good` is the right one.
ArgsSizes(good) == {-1, 0, good}

ArgsInit ==
    /\ ubTrap = FALSE
    /\ EntryIdle
    /\ wordBytes \in {1, 2}
    /\ rleInput = ArgsRuns
    /\ rleStray = 0
    /\ rlePc = "start"
    /\ rleOutSize = 0
    /\ rleEnc = RleIdle
    /\ rleInSize = 0
    /\ rleDecSize = 0
    /\ rleDec = RleDecInit
    /\ BswIdle
    /\ riceInput = ArgsData
    /\ ricePc = "start"
    /\ riceEnc = RiceEncIdle
    /\ riceDecSize = 0
    /\ riceDec = RiceDecIdle
    /\ huffInput = ArgsData
    /\ huffPc = "start"
    /\ huffNodes = <<>>
    /\ huffQueue = {}
    /\ huffTreeError = FALSE
    /\ huffEnc = HuffEncIdle
    /\ huffDecSize = 0
    /\ huffDec = HuffDecIdle
    /\ LzwIdle
    /\ ReaderIdle

ArgsRleEncode ==
    /\ entry.fn = "none"
    /\ \E inputNull, outputNull \in BOOLEAN,
          inSize \in ArgsSizes(RunsLen(rleInput)),
          outSize \in ArgsSizes(PacketSize(wordBytes)) :
          LET r == RleEasyEncodeCall(inputNull, outputNull, rleInput, inSize,
                                     wordBytes, outSize)
          IN  entry' = [fn    |-> "rle::easyEncode",
                        args  |-> <<inputNull, outputNull, inSize, outSize>>,
                        bad   |-> inputNull \/ outputNull \/ inSize <= 0 \/ outSize <= 0,
                        ret   |-> r.ret,
                        error |-> FALSE,
                        wrote |-> r.out # <<>>]
    /\ UNCHANGED <<ubTrap, rleVars, bswVars, riceVars, huffVars, lzwVars, reader>>

ArgsRleDecode ==
    /\ entry.fn = "none"
    /\ rlePc = "encoded"
    /\ rleEnc.ret > 0
    /\ \E inputNull, outputNull \in BOOLEAN,
          inSize \in ArgsSizes(rleEnc.ret), outSize \in ArgsSizes(RunsLen(rleInput)) :
          LET r == RleEasyDecodeCall(inputNull, outputNull, rleEnc.out, inSize,
                                     wordBytes, outSize, rleStray, ubTrap)
          IN  entry' = [fn    |-> "rle::easyDecode",
                        args  |-> <<inputNull, outputNull, inSize, outSize>>,
                        bad   |-> inputNull \/ outputNull \/ inSize <= 0 \/ outSize <= 0,
                        ret   |-> r.ret,
                        error |-> FALSE,
                        wrote |-> r.out # <<>> \/ r.oobWrite]
    /\ UNCHANGED <<ubTrap, rleVars, bswVars, riceVars, huffVars, lzwVars, reader>>

\* huffman::easyEncode called with an argument its tests refuse (the call with
\* the right arguments is HuffBuildStart and HuffEncode).
ArgsHuffEncode ==
    /\ entry.fn = "none"
    /\ \E uncompressedNull, compressedNull, sizeBytesNull, sizeBitsNull \in BOOLEAN,
          size \in ArgsSizes(Len(huffInput)) :
          /\ HuffEasyEncodeRefuses(uncompressedNull, compressedNull, size,
                                   sizeBytesNull, sizeBitsNull)
          /\ entry' = [fn    |-> "huffman::easyEncode",
                       args  |-> <<uncompressedNull, compressedNull, sizeBytesNull,
                                   sizeBitsNull, size>>,
                       bad   |-> uncompressedNull \/ compressedNull \/ sizeBytesNull
                                 \/ sizeBitsNull \/ size <= 0,
                       ret   |-> 0,
                       error |-> TRUE,
                       wrote |-> FALSE]
    /\ UNCHANGED <<ubTrap, rleVars, bswVars, riceVars, huffVars, lzwVars, reader>>

ArgsHuffDecode ==
    /\ entry.fn = "none"
    /\ huffPc = "encoded"
    /\ ricePc = "start"
    /\ \E compressedNull, uncompressedNull \in BOOLEAN,
          sizeBytes \in ArgsSizes(huffEnc.compressedSizeBytes),
          sizeBits \in ArgsSizes(huffEnc.compressedSizeBits),
          outSize \in ArgsSizes(Len(huffInput)) :
          LET r == HuffEasyDecode(huffEnc.compressed, compressedNull \/ uncompressedNull,
                                  sizeBytes, sizeBits, outSize, 0)
          IN  entry' = [fn    |-> "huffman::easyDecode",
                        args  |-> <<compressedNull, uncompressedNull, sizeBytes,
                                    sizeBits, outSize>>,
                        bad   |-> compressedNull \/ uncompressedNull \/ sizeBytes <= 0
                                  \/ sizeBits <= 0 \/ outSize <= 0,
                        ret   |-> r.ret,
                        error |-> r.error,
                        wrote |-> r.out # <<>>]
    /\ UNCHANGED <<ubTrap, rleVars, bswVars, riceVars, huffVars, lzwVars, reader>>

ArgsRiceEncode ==
    /\ entry.fn = "none"
    /\ \E uncompressedNull, compressedNull, sizeBytesNull, sizeBitsNull \in BOOLEAN,
          size \in ArgsSizes(Len(riceInput)) :
          LET refused == RiceEasyEncodeRefuses(uncompressedNull, compressedNull, size,
                                               sizeBytesNull, sizeBitsNull)
              enc     == IF refused THEN RiceEncIdle ELSE RiceEasyEncode(riceInput)
          IN  entry' = [fn    |-> "rice::easyEncode",
                        args  |-> <<uncompressedNull, compressedNull, sizeBytesNull,
                                    sizeBitsNull, size>>,
                        bad   |-> uncompressedNull \/ compressedNull \/ sizeBytesNull
                                  \/ sizeBitsNull \/ size <= 0,
                        ret   |-> 0,
                        error |-> refused,
                        wrote |-> enc # RiceEncIdle]
    /\ UNCHANGED <<ubTrap, rleVars, bswVars, riceVars, huffVars, lzwVars, reader>>

ArgsRiceDecode ==
    /\ entry.fn = "none"
    /\ ricePc = "encoded"
    /\ \E compressedNull, uncompressedNull \in BOOLEAN,
          sizeBytes \in ArgsSizes(riceEnc.compressedSizeBytes),
          sizeBits \in ArgsSizes(riceEnc.compressedSizeBits),
          outSize \in ArgsSizes(Len(riceInput)) :
          LET r == RiceEasyDecode(riceEnc.compressed, compressedNull \/ uncompressedNull,
                                  sizeBytes, sizeBits, outSize, 0)
          IN  entry' = [fn    |-> "rice::easyDecode",
                        args  |-> <<compressedNull, uncompressedNull, sizeBytes,
                                    sizeBits, outSize>>,
                        bad   |-> compressedNull \/ uncompressedNull \/ sizeBytes <= 0
                                  \/ sizeBits <= 0 \/ outSize <= 0,
                        ret   |-> r.ret,
                        error |-> r.error,
                        wrote |-> r.out # <<>>]
    /\ UNCHANGED <<ubTrap, rleVars, bswVars, riceVars, huffVars, lzwVars, reader>>

\* The earlier calls with the right arguments, one codec after the other:
\* Huffman, then Rice, then RLE.
ArgsPrepare ==
    /\ entry.fn = "none"
    /\ \/ HuffBuildStart
       \/ HuffEncode
       \/ (huffPc = "encoded" /\ RiceEncode)
       \/ (ricePc = "encoded" /\ RleEncode)

ArgsNext ==
    \/ ArgsPrepare
    \/ ArgsRleEncode
    \/ ArgsRleDecode
    \/ ArgsHuffEncode
    \/ ArgsHuffDecode
    \/ ArgsRiceEncode
    \/ ArgsRiceDecode

SpecArgs == ArgsInit /\ [][ArgsNext]_vars

(***************************************************************************)
(* The reader specification: a default-constructed BitStreamWriter takes   *)
(* appendBitsU64 calls (RdWrite); a reader is then made over what it holds *)
(* (RdOpen), a huffman::BitStreamReader from the writer or a rice::Decoder *)
(* from its stream and counts, and is asked for single bits                *)
(* (RdReadNextBit) and for numbers (RdReadBitsU64).  reader records the    *)
(* appendBitsU64 calls made, the reader's members, every read call with    *)
(* the position before and after it and what it returned, and the highest  *)
(* index of the stream that was read.                                      *)
(***************************************************************************)

\* Bounds: the appendBitsU64 calls made on the writer, the calls made on the reader.
RdMaxWrites == 2
RdMaxReads == 3

\* The numbers (as the sets of their 1 bits) and the bit counts explored.
RdNums == {{0, 2}, {1, 8, 40, 63}}
RdBitCounts == {1, 9, 64}

\* The read position of either reader.
Position(r) ==
    [currBytePos |-> r.currBytePos, nextBitPos |-> r.nextBitPos, numBitsRead |-> r.numBitsRead]

\* The highest stream index read so far, after a call that moved the reader from
\* `before` to `after`: a bit that was read came from the byte before the one a
\* position with nextBitPos = 0 points at, and from the pointed one otherwise.
HighestRead(highest, before, after) ==
    IF Position(after) = Position(before) THEN highest
    ELSE IF after.nextBitPos = 0 THEN after.currBytePos - 1 ELSE after.currBytePos

ReaderInit ==
    /\ ubTrap = FALSE
    /\ bsw = WriterDefault
    /\ bswBits = <<>>
    /\ bswCalls = 0
    /\ bswReleased = FALSE
    /\ reader = [pc |-> "writing", calls |-> <<>>]
    /\ RleIdleVars
    /\ RiceIdle
    /\ HuffIdle
    /\ LzwIdle
    /\ EntryIdle

\* bitStream.appendBitsU64(num, bitCount)
RdWrite ==
    /\ reader.pc = "writing"
    /\ Len(reader.calls) < RdMaxWrites
    /\ ~bsw.dead
    /\ \E num \in RdNums, bitCount \in RdBitCounts :
          /\ bsw' = AppendBitsU64(bsw, num, bitCount)
          /\ bswBits' = bswBits \o BitsOfNum(num, bitCount)
          /\ reader' = [reader EXCEPT !.calls = Append(@, [num |-> num, bitCount |-> bitCount])]
    /\ bswCalls' = bswCalls + 1
    /\ UNCHANGED <<ubTrap, bswReleased, rleVars, riceVars, huffVars, lzwVars, entry>>

\* BitStreamReader::BitStreamReader(writer), or rice::Decoder::Decoder(
\* writer.getBitStream(), writer.getByteCount(), writer.getBitCount()).
RdOpen ==
    /\ reader.pc = "writing"
    /\ ~bsw.dead
    /\ \E class \in {"huffman::BitStreamReader", "rice::Decoder"} :
          reader' = [pc          |-> "reading",
                     calls       |-> reader.calls,
                     class       |-> class,
                     sizeInBytes |-> GetByteCount(bsw),
                     sizeInBits  |-> GetBitCount(bsw),
                     r           |-> IF class = "rice::Decoder" THEN DecoderReset ELSE ReaderReset,
                     log         |-> <<>>,
                     highest     |-> -1]
    /\ UNCHANGED <<ubTrap, rleVars, bswVars, riceVars, huffVars, lzwVars, entry>>

\* readNextBit() of either class.
RdReadNextBit ==
    /\ reader.pc = "reading"
    /\ Len(reader.log) < RdMaxReads
    /\ LET read  == IF reader.class = "rice::Decoder"
                     THEN ReadNextBit(reader.r, bsw.stream, reader.sizeInBits, 0)
                     ELSE BsrReadNextBit(reader.r, bsw.stream, reader.sizeInBits, 0)
           after == IF reader.class = "rice::Decoder" THEN read.d ELSE read.r
       IN  reader' = [reader EXCEPT
                         !.r = after,
                         !.log = Append(@, [op     |-> "readNextBit",
                                            before |-> Position(reader.r),
                                            after  |-> Position(after),
                                            ok     |-> read.ok]),
                         !.highest = HighestRead(@, reader.r, after)]
    /\ UNCHANGED <<ubTrap, rleVars, bswVars, riceVars, huffVars, lzwVars, entry>>

\* BitStreamReader::readBitsU64(bitCount)
RdReadBitsU64 ==
    /\ reader.pc = "reading"
    /\ reader.class = "huffman::BitStreamReader"
    /\ Len(reader.log) < RdMaxReads
    /\ \E bitCount \in RdBitCounts :
          LET read == ReadBitsU64(reader.r, bitCount, bsw.stream, reader.sizeInBits, 0)
          IN  reader' = [reader EXCEPT
                            !.r = read.r,
                            !.log = Append(@, [op       |-> "readBitsU64",
                                               before   |-> Position(reader.r),
                                               after    |-> Position(read.r),
                                               bitCount |-> bitCount,
                                               num      |-> read.num]),
                            !.highest = HighestRead(@, reader.r, read.r)]
    /\ UNCHANGED <<ubTrap, rleVars, bswVars, riceVars, huffVars, lzwVars, entry>>

ReaderNext == RdWrite \/ RdOpen \/ RdReadNextBit \/ RdReadBitsU64

SpecReader == ReaderInit /\ [][ReaderNext]_vars

(***************************************************************************)
(* Claims about the bit-stream writer, checked under SpecWriter.           *)
(***************************************************************************)

C7_WriterCapacity ==
    ~bswReleased =>
        /\ CeilDiv(bsw.numBitsWritten, 8) <= bsw.bytesAllocated
        /\ ~bsw.oob

\* The bytes of the buffer past the written bits, and the written part of the last
\* used byte.
ZeroPadded(w) ==
    \A i \in 1..Len(w.stream) :
        /\ 8 * (i - 1) >= w.numBitsWritten => w.stream[i] = 0
        /\ (8 * (i - 1) < w.numBitsWritten /\ w.numBitsWritten < 8 * i)
               => w.stream[i] < Pow2(w.numBitsWritten - 8 * (i - 1))

\* C8: zero padding.  In every state of a writer every bit of the buffer at a bit
\* position >= numBitsWritten is 0, also after the buffer has grown.
C8_ZeroPadding == ZeroPadded(bsw)

\* C8 witness: one bits were written, the last used byte is partly used, and the
\* buffer has grown from one byte to nine.
C8_Witness ==
    /\ bsw.bytesAllocated = 9
    /\ bsw.numBitsWritten % 8 # 0
    /\ bsw.numBitsWritten > 8
    /\ bsw.stream[1] = 255
    /\ bsw.stream[bsw.currBytePos + 1] # 0

\* What a caller can observe of a writer after the bits `bits` were appended:
\* the counts, the stream's bits, and whether every store stayed in the buffer.
StreamBit(w, p) ==
    IF p \div 8 < Len(w.stream) THEN BitAt(w.stream[(p \div 8) + 1], p % 8) ELSE 0

Observable(w) ==
    [bitCount  |-> GetBitCount(w),
     byteCount |-> GetByteCount(w),
     contents  |-> [p \in 1..w.numBitsWritten |-> StreamBit(w, p - 1)],
     inBounds  |-> ~w.oob,
     alive     |-> ~w.dead]

RECURSIVE AppendAll(_, _)
AppendAll(w, bits) ==
    IF bits = <<>> \/ w.dead THEN w ELSE AppendAll(AppendBit(w, Head(bits)), Tail(bits))

\* C9 as stated: after release() the writer behaves as a freshly constructed empty
\* writer: appending any bits to it gives the bit count, byte count, stream
\* contents and in-bounds stores that appending them to a new default-constructed
\* writer gives.
C9_ReleaseIsFresh ==
    bswReleased => Observable(bsw) = Observable(AppendAll(WriterDefault, bswBits))


(***************************************************************************)
(* Claims about the Huffman codec, checked under SpecHuff.                 *)
(***************************************************************************)

\* C2: Huffman round trip.  For every non-empty input x of n bytes, inputs of
\* one distinct symbol included, huffman::easyEncode completes without the error
\* hook, and huffman::easyDecode of the buffer, byte count and exact bit count it
\* handed back, into n bytes, returns n and writes exactly x without the error
\* hook.
C2_HuffRoundTrip ==
    /\ huffPc \in {"encoded", "decoded"} =>
           ~huffEnc.crashed /\ ~huffEnc.oob /\ ~huffEnc.null /\ ~huffEnc.error
    /\ (huffPc = "decoded" /\ huffDecSize = Len(huffInput)) =>
           /\ huffDec.ret = Len(huffInput)
           /\ huffDec.out = huffInput
           /\ ~huffDec.error

\* C2 witness: a decoded input whose symbols got codes of different lengths.
C2_Witness ==
    /\ huffPc = "decoded"
    /\ huffDecSize = Len(huffInput)
    /\ huffDec.out = huffInput
    /\ \E a, b \in DOMAIN huffEnc.nodes :
          /\ a < MaxSymbols /\ b < MaxSymbols
          /\ huffEnc.nodes[a].code.length < huffEnc.nodes[b].code.length

(***************************************************************************)
(* Claims about the LZW codec, checked under SpecLZW.                      *)
(***************************************************************************)

\* C4 as stated: LZW round trip.  For every non-empty input x, the decoder of
\* section 4.4, given the encoder's stream, its byte count, its exact bit count
\* and an output buffer of |x| bytes, returns |x| and writes exactly x, also for
\* inputs with the KwKwK pattern and inputs that fill the dictionary and make
\* the encoder reset it.
C4_LzwRoundTrip ==
    /\ lzwPc \in {"encoded", "decoded"} => ~lzwEnc.crashed /\ ~lzwEnc.oob
    /\ lzwPc = "decoded" =>
           /\ lzwDec.ret = Len(lzwInput)
           /\ lzwDec.out = lzwInput
           /\ ~lzwDec.error

(***************************************************************************)
(* Claims about the Rice codec, checked under SpecRice.                    *)
(***************************************************************************)

\* C3 as stated: Rice round trip.  For every non-empty input x of n bytes, every
\* single byte included, rice::easyEncode completes with its stores inside its
\* buffer, and rice::easyDecode of the buffer, byte count and bit count it handed
\* back, into n bytes, returns n and writes exactly x.
C3_RiceRoundTrip ==
    /\ ricePc \in {"encoded", "decoded"} =>
           ~riceEnc.crashed /\ ~riceEnc.oob /\ ~riceEnc.assertFailed
    /\ (ricePc = "decoded" /\ riceDecSize = Len(riceInput)) =>
           riceDec.ret = Len(riceInput) /\ riceDec.out = riceInput

\* sum_i ((value_i >> k) + 1 + k)
RECURSIVE RiceTotalBits(_, _)
RiceTotalBits(input, k) ==
    IF input = <<>> THEN 0
    ELSE (Head(input) \div Pow2(k)) + 1 + k + RiceTotalBits(Tail(input), k)

\* C5: Rice parameter optimality.  The k that findBestKBits(input, n, 8, &best)
\* returns, which easyEncode writes as the first 4 bits, gives a total of
\* (value_i >> k) + 1 + k no larger than any k' in 0..8 gives, and best is that
\* total.
C5_BestKBits ==
    ricePc \in {"encoded", "decoded"} =>
        /\ riceEnc.KBits \in 0..8
        /\ \A k2 \in 0..8 :
              RiceTotalBits(riceInput, riceEnc.KBits) <= RiceTotalBits(riceInput, k2)
        /\ riceEnc.minCompressedBitSize = RiceTotalBits(riceInput, riceEnc.KBits)
        /\ (~riceEnc.crashed /\ ~riceEnc.null) =>
              riceEnc.KBits = SumSeq([b \in 1..4 |->
                                  BitAt(riceEnc.compressed[1], b - 1) * Pow2(b - 1)])

\* C5 witness: an encoded input of several different bytes whose best k is
\* neither the first nor the last candidate, with the k readable in the stream.
C5_Witness ==
    /\ ricePc = "encoded"
    /\ Len(riceInput) = 3
    /\ riceInput[1] # riceInput[2]
    /\ riceEnc.KBits \in 1..7
    /\ ~riceEnc.crashed /\ ~riceEnc.null
    /\ riceEnc.compressed[1] % 16 = riceEnc.KBits
    /\ \E k2 \in 0..8 :
          RiceTotalBits(riceInput, k2) > RiceTotalBits(riceInput, riceEnc.KBits)

(***************************************************************************)
(* Claims about the RLE codec, checked under SpecRLE.                      *)
(***************************************************************************)

\* C1: RLE round trip.  Encoding a non-empty input of n bytes into a buffer of at
\* least (word_bytes + 1) * n bytes returns a positive size, and decoding the
\* returned bytes into a buffer of exactly n bytes returns n and writes the input
\* back, every byte inside the buffer.
C1_RleRoundTrip ==
    LET n == RunsLen(rleInput) IN
    /\ (rlePc # "start" /\ rleOutSize >= PacketSize(wordBytes) * n) => rleEnc.ret > 0
    /\ (rlePc = "decoded" /\ rleInSize = rleEnc.ret /\ rleDecSize = n) =>
           /\ rleDec.ret = n
           /\ rleDec.out = RleBytesOf(rleInput)
           /\ ~rleDec.oobWrite

\* C1 witness: an input with a run longer than MaxRunLength (split over several
\* packets) has been encoded and decoded back into n bytes.
C1_Witness ==
    /\ rlePc = "decoded"
    /\ rleInSize = rleEnc.ret
    /\ rleDecSize = RunsLen(rleInput)
    /\ rleDec.ret = RunsLen(rleInput)
    /\ \E i \in DOMAIN rleInput : rleInput[i][1] > MaxRunLength(wordBytes)
    /\ rleEnc.ret >= 3 * PacketSize(wordBytes)

\* C10 as stated: the encoded size is at most 2 * ceil(n / MaxRun) * (word_bytes + 1).
C10_RleBoundAsStated ==
    (rlePc # "start" /\ rleEnc.ret # -1) =>
        rleEnc.ret <= 2 * CeilDiv(RunsLen(rleInput), MaxRunLength(wordBytes))
                        * PacketSize(wordBytes)

\* C10 amended: the encoded size is at most n * (word_bytes + 1), one packet per
\* input byte.
C10_RleBound ==
    (rlePc # "start" /\ rleEnc.ret # -1) =>
        rleEnc.ret <= RunsLen(rleInput) * PacketSize(wordBytes)

\* C10 witness: an encoding that reaches the amended bound and exceeds the stated one.
C10_Witness ==
    /\ rlePc = "encoded"
    /\ rleEnc.ret = RunsLen(rleInput) * PacketSize(wordBytes)
    /\ rleEnc.ret > 2 * CeilDiv(RunsLen(rleInput), MaxRunLength(wordBytes))
                       * PacketSize(wordBytes)


\* C11: RLE decode reports insufficient capacity.  Decoding whole packets whose
\* counts sum to more than outSizeBytes returns -1 and stores no byte outside the
\* output buffer.
C11_RleDecodeCapacity ==
    (rlePc = "decoded" /\ rleInSize = rleEnc.ret /\ RunsLen(rleInput) > rleDecSize) =>
        /\ rleDec.ret = -1
        /\ ~rleDec.oobWrite

\* The number of packets an input stands for: each maximal stretch of equal
\* bytes, of length len, takes ceil(len / MaxRunLength) packets.
RECURSIVE RlePacketsFrom(_, _, _, _)
RlePacketsFrom(runs, len, byte, w) ==
    IF runs = <<>> THEN CeilDiv(len, MaxRunLength(w))
    ELSE IF Head(runs)[2] = byte
         THEN RlePacketsFrom(Tail(runs), len + Head(runs)[1], byte, w)
         ELSE CeilDiv(len, MaxRunLength(w))
              + RlePacketsFrom(Tail(runs), Head(runs)[1], Head(runs)[2], w)

RlePackets(runs, w) == RlePacketsFrom(Tail(runs), Head(runs)[1], Head(runs)[2], w)

\* C12: RLE encode reports output overflow.  For a non-empty input of p packets
\* easyEncode returns -1 exactly when p * (word_bytes + 1) > outSizeBytes and
\* p * (word_bytes + 1) otherwise, and every byte it writes lies below
\* outSizeBytes.
C12_RleEncodeOverflow ==
    LET need == RlePackets(rleInput, wordBytes) * PacketSize(wordBytes) IN
    rlePc # "start" =>
        /\ (rleEnc.ret = -1) <=> (need > rleOutSize)
        /\ (need <= rleOutSize) => (rleEnc.ret = need /\ Len(rleEnc.out) = need)
        /\ Len(rleEnc.out) <= rleOutSize

\* C12 witness: an encoding that wrote at least one packet and then ran out of
\* room in a buffer whose size is not a multiple of the packet size.
C12_Witness ==
    /\ rlePc = "encoded"
    /\ rleEnc.ret = -1
    /\ Len(rleEnc.out) >= PacketSize(wordBytes)
    /\ rleOutSize % PacketSize(wordBytes) # 0

(***************************************************************************)
(* Claims about the entry points' argument tests, checked under SpecArgs.  *)
(***************************************************************************)

\* What a call with a null pointer or a non-positive size returns: -1 from the
\* RLE functions, zero bytes from the decoders, nothing from the encoders; no
\* output in any case.
ArgsRefused ==
    /\ entry.ret = IF entry.fn \in {"rle::easyEncode", "rle::easyDecode"} THEN -1 ELSE 0
    /\ ~entry.wrote

\* C13 as stated: argument errors do not reach the hook.  A codec entry point
\* called with a null pointer or a non-positive size returns -1 (RLE) or zero
\* bytes / no output (Huffman, Rice), and the fatal-error hook is not invoked.
C13_ArgumentErrorsNoHook ==
    (entry.fn # "none" /\ entry.bad) => (ArgsRefused /\ ~entry.error)

\* C13 amended: a codec entry point called with a null pointer or a non-positive
\* size returns -1 (RLE) or zero bytes / no output (Huffman, Rice); the RLE
\* functions invoke no hook, the Huffman and Rice functions invoke the
\* fatal-error hook before they return.
C13_ArgumentErrors ==
    (entry.fn # "none" /\ entry.bad) =>
        /\ ArgsRefused
        /\ entry.error <=> (entry.fn \notin {"rle::easyEncode", "rle::easyDecode"})

\* C13 witness: huffman::easyDecode was called with non-null pointers, the right
\* stream sizes and an output size of 0, and ran the hook.
C13_Witness ==
    /\ entry.fn = "huffman::easyDecode"
    /\ entry.args[1] = FALSE /\ entry.args[2] = FALSE
    /\ entry.args[3] > 0 /\ entry.args[4] > 0 /\ entry.args[5] = 0
    /\ entry.error
    /\ entry.ret = 0

(***************************************************************************)
(* Claims about the decoders' output capacity, checked under SpecCodecs    *)
(* and SpecRice.                                                           *)
(***************************************************************************)

\* huffman::easyDecode was given the encoder's stream and a buffer of c bytes,
\* 0 < c < n.
HuffSmallBuffer ==
    /\ huffPc = "decoded"
    /\ ~huffEnc.null
    /\ huffDecSize > 0
    /\ huffDecSize < Len(huffInput)

\* rice::easyDecode was given the encoder's stream and a buffer of c bytes,
\* 0 < c < n.
RiceSmallBuffer ==
    /\ ricePc = "decoded"
    /\ ~riceEnc.null /\ ~riceEnc.oob
    /\ riceDecSize > 0
    /\ riceDecSize < Len(riceInput)

\* C14 as stated: capacity errors reach the hook.  Whenever Huffman or Rice
\* easyDecode is called with a capacity c smaller than the original length n, the
\* fatal-error hook is invoked and the function returns a partial byte count.
C14_CapacityReachesHook ==
    /\ HuffSmallBuffer => (huffDec.error /\ huffDec.ret = huffDecSize)
    /\ RiceSmallBuffer => (riceDec.error /\ riceDec.ret = riceDecSize)

\* C14 amended: huffman::easyDecode called with a capacity c smaller than the
\* original length n invokes the fatal-error hook and returns c; rice::easyDecode
\* called so returns c without invoking the hook.
C14_CapacityError ==
    /\ HuffSmallBuffer => (huffDec.error /\ huffDec.ret = huffDecSize)
    /\ RiceSmallBuffer => (~riceDec.error /\ riceDec.ret = riceDecSize)

\* C14 witness: the Rice decoder filled a buffer one byte too small for a stream
\* of three bytes and did not run the hook.
C14_Witness ==
    /\ RiceSmallBuffer
    /\ Len(riceInput) = 3
    /\ riceDec.ret = 2
    /\ ~riceDec.error

\* C15: partial output on a small buffer.  Given an output buffer smaller than
\* the original data, easyDecode (Huffman or Rice) writes a prefix of the data,
\* no more bytes than the buffer holds, and returns less than its
\* uncompressedSizeBytes argument.
C15_PartialOutput ==
    /\ HuffSmallBuffer =>
           /\ huffDec.out = SubSeq(huffInput, 1, Len(huffDec.out))
           /\ Len(huffDec.out) <= huffDecSize
           /\ huffDec.ret < huffDecSize
    /\ RiceSmallBuffer =>
           /\ riceDec.out = SubSeq(riceInput, 1, Len(riceDec.out))
           /\ Len(riceDec.out) <= riceDecSize
           /\ riceDec.ret < riceDecSize

\* C16: stream exhaustion is reported.  When rice::easyDecode runs out of bits
\* before it has produced uncompressedSizeBytes bytes, for any k in 0..8, it
\* invokes the fatal-error hook and returns the number of bytes decoded from the
\* stream, emitting no byte that was not encoded.
C16_RiceExhaustion ==
    (/\ ricePc = "decoded"
     /\ ~riceEnc.null /\ ~riceEnc.oob
     /\ riceDecSize > Len(riceInput)) =>
        /\ riceDec.error
        /\ riceDec.ret = Len(riceInput)
        /\ riceDec.out = riceInput

(***************************************************************************)
(* The Huffman header.                                                     *)
(***************************************************************************)

\* Whether symbol sym occurs in the input.
Occurs(sym, data) == \E i \in 1..Len(data) : data[i] = sym

\* C17: the code table readPrefixData reconstructs from the header that
\* writeTreeBitStream wrote holds, for each of the 256 symbols, the encoder's
\* leaf code (same bits, same length) when the symbol occurs in the input and a
\* code of length 0 when it does not.
C17_HeaderRoundTrip ==
    (huffPc = "decoded" /\ ~huffEnc.null /\ ~huffEnc.oob /\ huffDecSize > 0) =>
        /\ DOMAIN huffDec.codes = 0..(MaxSymbols - 1)
        /\ \A sym \in 0..(MaxSymbols - 1) :
              IF Occurs(sym, huffInput)
              THEN /\ huffDec.codes[sym] = huffEnc.nodes[sym].code
                   /\ huffDec.codes[sym].length > 0
              ELSE huffDec.codes[sym].length = 0

\* A header with codes of two different lengths and absent symbols has been
\* read back.
C17_Witness ==
    /\ huffPc = "decoded"
    /\ huffDecSize > 0
    /\ DOMAIN huffDec.codes = 0..(MaxSymbols - 1)
    /\ \E a, b \in 0..(MaxSymbols - 1) :
          /\ Occurs(a, huffInput) /\ Occurs(b, huffInput)
          /\ huffDec.codes[a].length = 2
          /\ huffDec.codes[b].length = 4
          /\ huffDec.codes[b] = huffEnc.nodes[b].code
    /\ \E c \in 0..(MaxSymbols - 1) : ~Occurs(c, huffInput) /\ huffDec.codes[c].length = 0

\* The second 16-bit word of the header, as the stream's bytes 2 and 3 hold it.
HeaderLengthWidth == huffEnc.compressed[3] + 256 * huffEnc.compressed[4]

\* The longest code among the symbols that occur in the input.
LongestCode ==
    LET lengths == {huffEnc.nodes[huffInput[i]].code.length : i \in 1..Len(huffInput)}
    IN  CHOOSE l \in lengths : \A other \in lengths : other <= l

\* ceil(log2(n)), n >= 1: the least k with 2^k >= n.
CeilLog2(n) == CHOOSE k \in 0..n : Pow2(k) >= n /\ \A j \in 0..(k - 1) : Pow2(j) < n

\* floor(log2(n)) + 1, n >= 1: the least k with 2^k > n.
BitWidth(n) == CHOOSE k \in 0..n : Pow2(k) > n /\ \A j \in 0..(k - 1) : Pow2(j) <= n

HuffHeaderWritten ==
    huffPc \in {"encoded", "decoded"} /\ ~huffEnc.null /\ ~huffEnc.oob /\ ~huffEnc.crashed

\* C20 as stated: the length-field width L in the second header word is
\* ceil(log2(max_code_length)), and L is in 1..7.
C20_WidthIsCeilLog2 ==
    HuffHeaderWritten =>
        /\ HeaderLengthWidth = CeilLog2(LongestCode)
        /\ HeaderLengthWidth \in 1..7

\* C20, amended: the length-field width L in the second header word is
\* floor(log2(max_code_length)) + 1, the number of bits of max_code_length, and
\* L is in 1..7.
C20_LengthFieldWidth ==
    HuffHeaderWritten =>
        /\ HeaderLengthWidth = BitWidth(LongestCode)
        /\ HeaderLengthWidth \in 1..7

\* A header whose longest code has 4 bits has been written: 3 bits of width,
\* where ceil(log2(4)) is 2.
C20_Witness ==
    /\ HuffHeaderWritten
    /\ LongestCode = 4
    /\ HeaderLengthWidth = 3

(***************************************************************************)
(* The bit order and the reader.                                           *)
(***************************************************************************)

\* The appendBitsU64 calls made, as the bits they stand for: bits 0 .. n-1 of
\* each value, least significant first.
RECURSIVE BitsOfCalls(_)
BitsOfCalls(calls) ==
    IF calls = <<>> THEN <<>>
    ELSE BitsOfNum(Head(calls).num, Head(calls).bitCount) \o BitsOfCalls(Tail(calls))

\* The reader was given just the readBitsU64 calls 1 .. j, with the bit counts
\* of the appendBitsU64 calls 1 .. j.
SameSequence(j) ==
    /\ j <= Len(reader.calls)
    /\ \A i \in 1..j : /\ reader.log[i].op = "readBitsU64"
                        /\ reader.log[i].bitCount = reader.calls[i].bitCount

\* C18: bit i appended to a writer is stored at bit i mod 8 (LSB = 0) of byte
\* i div 8; appendBitsU64(value, n) appends bits 0..n-1 of value least
\* significant first; a reader over the stream that calls readBitsU64 with the
\* same sequence of n gets value mod 2^n each time.
C18_BitOrder ==
    reader.pc \in {"writing", "reading"} =>
        /\ ~bsw.dead /\ ~bsw.oob
        /\ bsw.numBitsWritten = Len(BitsOfCalls(reader.calls))
        /\ \A i \in 0..(bsw.numBitsWritten - 1) :
              BitAt(bsw.stream[(i \div 8) + 1], i % 8) = BitsOfCalls(reader.calls)[i + 1]
        /\ reader.pc = "reading" =>
              \A j \in 1..Len(reader.log) :
                 SameSequence(j) =>
                    reader.log[j].num
                       = {b \in reader.calls[j].num : b < reader.calls[j].bitCount}

\* Two numbers were written, one with bits above its bit count, and both were
\* read back.
C18_Witness ==
    /\ reader.pc = "reading"
    /\ Len(reader.log) = 2
    /\ SameSequence(2)
    /\ reader.calls[1] = [num |-> {1, 8, 40, 63}, bitCount |-> 9]
    /\ reader.log[1].num = {1, 8}
    /\ reader.calls[2] = [num |-> {0, 2}, bitCount |-> 1]
    /\ reader.log[2].num = {0}
    /\ bsw.stream[1] = 2 /\ bsw.stream[2] = 3

\* C19: readNextBit returns a bit and advances by exactly one bit while
\* numBitsRead < sizeInBits, and returns false with the position unchanged
\* otherwise; always numBitsRead <= sizeInBits and
\* numBitsRead = 8 * currBytePos + nextBitPos, and no byte at an index
\* >= ceil(sizeInBits / 8) is read.
C19_ReaderBound ==
    reader.pc = "reading" =>
        /\ reader.r.numBitsRead <= reader.sizeInBits
        /\ reader.r.numBitsRead = 8 * reader.r.currBytePos + reader.r.nextBitPos
        /\ reader.r.nextBitPos \in 0..7
        /\ reader.highest < CeilDiv(reader.sizeInBits, 8)
        /\ \A j \in 1..Len(reader.log) :
              LET call == reader.log[j]
              IN  call.op = "readNextBit" =>
                     IF call.before.numBitsRead < reader.sizeInBits
                     THEN /\ call.ok
                          /\ call.after.numBitsRead = call.before.numBitsRead + 1
                          /\ 8 * call.after.currBytePos + call.after.nextBitPos
                                = 8 * call.before.currBytePos + call.before.nextBitPos + 1
                     ELSE /\ ~call.ok
                          /\ call.after = call.before

\* A rice::Decoder read the one bit of a 1-bit stream and was then refused a
\* further bit, twice.
C19_Witness ==
    /\ reader.pc = "reading"
    /\ reader.class = "rice::Decoder"
    /\ reader.sizeInBits = 1
    /\ Len(reader.log) = 3
    /\ reader.log[1].ok
    /\ ~reader.log[2].ok /\ ~reader.log[3].ok
    /\ reader.log[3].after = reader.log[3].before
    /\ reader.r.numBitsRead = 1
    /\ reader.highest = 0

(***************************************************************************)
(* The Huffman tree and its codes.                                         *)
(***************************************************************************)

\* The code `code` followed by the bit `bit`.
CodeThenBit(code, bit) ==
    [bits   |-> IF bit = 1 THEN code.bits \cup {code.length} ELSE code.bits,
     length |-> code.length + 1]

\* The depth of node n below node `from` (0 for `from` itself), Nil when n is
\* not in the subtree.
RECURSIVE DepthBelow(_, _, _)
DepthBelow(nodes, from, n) ==
    IF from = Nil THEN Nil
    ELSE IF from = n THEN 0
    ELSE LET l == DepthBelow(nodes, nodes[from].leftChild, n)
             r == DepthBelow(nodes, nodes[from].rightChild, n)
         IN  IF l # Nil THEN l + 1 ELSE IF r # Nil THEN r + 1 ELSE Nil

\* Bit p of the stream easyEncode handed back.
HuffStreamBit(p) == BitAt(huffEnc.compressed[(p \div 8) + 1], p % 8)

\* C21: after buildHuffmanTree the root's code is the single bit 0; every node
\* at depth d below the root has a code of length d + 1, its parent's code
\* followed by 0 for a left child and 1 for a right child; an input of one
\* distinct symbol gives it the code '0' and a payload of exactly n zero bits.
C21_CodeAssignment ==
    HuffHeaderWritten =>
        LET nodes == huffEnc.nodes
            root  == huffEnc.treeRoot
        IN  /\ nodes[root].code = [bits |-> {}, length |-> 1]
            /\ \A n \in DOMAIN nodes :
                  /\ nodes[n].code.length = DepthBelow(nodes, root, n) + 1
                  /\ nodes[n].leftChild # Nil =>
                        nodes[nodes[n].leftChild].code = CodeThenBit(nodes[n].code, 0)
                  /\ nodes[n].rightChild # Nil =>
                        nodes[nodes[n].rightChild].code = CodeThenBit(nodes[n].code, 1)
            /\ (\A i \in 1..Len(huffInput) : huffInput[i] = huffInput[1]) =>
                  /\ nodes[huffInput[1]].code = [bits |-> {}, length |-> 1]
                  /\ huffEnc.compressedSizeBits = huffEnc.treePrefixBits + Len(huffInput)
                  /\ \A p \in huffEnc.treePrefixBits..(huffEnc.compressedSizeBits - 1) :
                        HuffStreamBit(p) = 0

\* A tree with a right leaf three levels below the root has been coded.
C21_Witness ==
    /\ HuffHeaderWritten
    /\ \E n \in DOMAIN huffEnc.nodes :
          /\ n < MaxSymbols
          /\ DepthBelow(huffEnc.nodes, huffEnc.treeRoot, n) = 3
          /\ huffEnc.nodes[n].code.length = 4
          /\ 3 \in huffEnc.nodes[n].code.bits

\* The sum of the code lengths of the symbols lo .. hi-1.
RECURSIVE SumCodeLengths(_, _, _)
SumCodeLengths(nodes, lo, hi) ==
    IF hi <= lo THEN 0
    ELSE IF hi = lo + 1 THEN NodeAt(nodes, lo).code.length
    ELSE SumCodeLengths(nodes, lo, (lo + hi) \div 2)
            + SumCodeLengths(nodes, (lo + hi) \div 2, hi)

\* C22: the encoder's treePrefixBits is 32 + the sum over the 256 symbols of
\* (L + l_s), rounded up to a multiple of 8 with zero bits, and readPrefixData
\* consumes exactly that many bits, so the decoder's first payload bit is the
\* encoder's.
C22_HeaderAlignment ==
    (huffPc = "decoded" /\ HuffHeaderWritten /\ huffDecSize > 0) =>
        LET unpadded == 32 + MaxSymbols * HeaderLengthWidth
                           + SumCodeLengths(huffEnc.nodes, 0, MaxSymbols)
        IN  /\ huffEnc.treePrefixBits = 8 * CeilDiv(unpadded, 8)
            /\ \A p \in unpadded..(huffEnc.treePrefixBits - 1) : HuffStreamBit(p) = 0
            /\ huffDec.prefixBits = huffEnc.treePrefixBits

\* A header that needed padding has been read back.
C22_Witness ==
    /\ huffPc = "decoded" /\ HuffHeaderWritten /\ huffDecSize > 0
    /\ (32 + MaxSymbols * HeaderLengthWidth
           + SumCodeLengths(huffEnc.nodes, 0, MaxSymbols)) % 8 \in 1..7
    /\ huffDec.prefixBits = huffEnc.treePrefixBits
    /\ huffDec.out = huffInput

\* The first k bits of a code, and whether code a is a prefix of code b.
CodePrefix(code, k) == [bits |-> {b \in code.bits : b < k}, length |-> k]

IsCodePrefix(a, b) == a.length <= b.length /\ CodePrefix(b, a.length) = a

\* The symbols that occur in the input.
HuffOccurring == {huffInput[i] : i \in 1..Len(huffInput)}

\* C23: no code of a symbol that occurs in the input is equal to or a proper
\* prefix of the code of another occurring symbol, so the decoder's
\* accumulate-and-match loop matches at the end of each encoded symbol (its own
\* symbol) and never earlier.
C23_PrefixFree ==
    (huffPc = "decoded" /\ HuffHeaderWritten /\ huffDecSize > 0) =>
        /\ \A s, t \in HuffOccurring :
              s # t => ~IsCodePrefix(huffEnc.nodes[s].code, huffEnc.nodes[t].code)
        /\ \A s \in HuffOccurring :
              LET code == huffEnc.nodes[s].code
              IN  /\ FindMatchingCode(huffDec.codes, code) = s
                  /\ \A k \in 1..(code.length - 1) :
                        FindMatchingCode(huffDec.codes, CodePrefix(code, k)) = Nil

\* Four symbols with codes of three different lengths have been decoded.
C23_Witness ==
    /\ huffPc = "decoded" /\ HuffHeaderWritten
    /\ huffDecSize = Len(huffInput)
    /\ Cardinality(HuffOccurring) = 4
    /\ Cardinality({huffEnc.nodes[s].code.length : s \in HuffOccurring}) = 3
    /\ huffDec.out = huffInput

\* The inner nodes allocated so far.
InnerNodes == {n \in DOMAIN huffNodes : n >= MaxSymbols}

\* C24: for an input with d >= 1 distinct symbols buildHuffmanTree allocates
\* exactly d - 1 inner nodes (at most 255, in consecutive slots from index 256
\* on), one for each merge, each with the frequency of its two children added;
\* the root's frequency is the input's length and 'No more free node slots' is
\* never raised.
C24_NodePool ==
    huffPc \in {"queued", "encoded", "decoded"} =>
        LET d == Cardinality(HuffOccurring)
        IN  /\ ~huffTreeError
            /\ Cardinality(huffQueue) \in 1..d
            /\ InnerNodes = MaxSymbols..(MaxSymbols + (d - Cardinality(huffQueue)) - 1)
            /\ \A n \in InnerNodes :
                  huffNodes[n].frequency = huffNodes[huffNodes[n].leftChild].frequency
                                            + huffNodes[huffNodes[n].rightChild].frequency
            /\ Cardinality(huffQueue) = 1 =>
                  /\ Cardinality(InnerNodes) = d - 1
                  /\ d - 1 <= 255
                  /\ \A root \in huffQueue : huffNodes[root].frequency = Len(huffInput)

\* The tree of an input of four distinct symbols is complete: three inner nodes.
C24_Witness ==
    /\ huffPc = "queued"
    /\ Cardinality(HuffOccurring) = 4
    /\ Cardinality(huffQueue) = 1
    /\ InnerNodes = {256, 257, 258}
    /\ huffNodes[258].frequency = Len(huffInput)

(***************************************************************************)
(* The RLE packets.                                                        *)
(***************************************************************************)

\* The packets of the output easyEncode wrote: their number, and the count and
\* the byte of packet i (from 1).
RleOutPackets == Len(rleEnc.out) \div PacketSize(wordBytes)

RleOutCount(i) == ReadData(rleEnc.out, (i - 1) * PacketSize(wordBytes), wordBytes, 0)

RleOutByte(i) == rleEnc.out[i * PacketSize(wordBytes)]

\* The sum of the counts of the packets lo .. hi-1.
RECURSIVE RleOutCounts(_, _)
RleOutCounts(lo, hi) ==
    IF hi <= lo THEN 0
    ELSE IF hi = lo + 1 THEN RleOutCount(lo)
    ELSE RleOutCounts(lo, (lo + hi) \div 2) + RleOutCounts((lo + hi) \div 2, hi)

\* C25: in every successful easyEncode output each packet's count is in
\* 1..MaxRun, the counts sum to the input length, two consecutive packets carry
\* the same byte only if the first has count MaxRun; an input of n identical
\* bytes yields exactly ceil(n / MaxRun) packets.
C25_MaximalRuns ==
    (rlePc # "start" /\ rleEnc.ret > 0) =>
        /\ Len(rleEnc.out) = RleOutPackets * PacketSize(wordBytes)
        /\ \A i \in 1..RleOutPackets : RleOutCount(i) \in 1..MaxRunLength(wordBytes)
        /\ RleOutCounts(1, RleOutPackets + 1) = RunsLen(rleInput)
        /\ \A i \in 1..(RleOutPackets - 1) :
              RleOutByte(i) = RleOutByte(i + 1) => RleOutCount(i) = MaxRunLength(wordBytes)
        /\ (\A k \in 1..Len(rleInput) : rleInput[k][2] = rleInput[1][2]) =>
              RleOutPackets = CeilDiv(RunsLen(rleInput), MaxRunLength(wordBytes))

\* 256 equal bytes and a different one were encoded: packets (255, b), (1, b)
\* and (1, c).
C25_Witness ==
    /\ rlePc = "encoded" /\ rleEnc.ret > 0
    /\ wordBytes = 1
    /\ RleOutPackets = 3
    /\ RleOutCount(1) = 255 /\ RleOutCount(2) = 1 /\ RleOutCount(3) = 1
    /\ RleOutByte(1) = RleOutByte(2)
    /\ RleOutByte(2) # RleOutByte(3)

\* No two adjacent bytes of the input are equal: every run has one byte and
\* consecutive runs differ.
NoAdjacentEqual(runs) ==
    /\ \A k \in 1..Len(runs) : runs[k][1] = 1
    /\ \A k \in 1..(Len(runs) - 1) : runs[k][2] # runs[k + 1][2]

\* C26: the encoded size of a non-empty input of n bytes is at most
\* (word_bytes + 1) * n, with equality exactly when no two adjacent input bytes
\* are equal (the output is then larger than the input); easyEncode never
\* returns -1 when outSizeBytes >= (word_bytes + 1) * n.
C26_RleWorstCase ==
    LET n     == RunsLen(rleInput)
        worst == PacketSize(wordBytes) * n
    IN  rlePc # "start" =>
           /\ rleOutSize >= worst => rleEnc.ret # -1
           /\ rleEnc.ret # -1 =>
                 /\ rleEnc.ret <= worst
                 /\ (rleEnc.ret = worst) <=> NoAdjacentEqual(rleInput)
                 /\ NoAdjacentEqual(rleInput) => rleEnc.ret > n

\* Three bytes, each different from the one before, were encoded with 16-bit
\* counts into 9 bytes.
C26_Witness ==
    /\ rlePc = "encoded"
    /\ wordBytes = 2
    /\ RunsLen(rleInput) = 3
    /\ NoAdjacentEqual(rleInput)
    /\ rleOutSize = 9
    /\ rleEnc.ret = 9

(***************************************************************************)
(* The Rice stream.                                                        *)
(***************************************************************************)

\* The code of one byte: (v >> k) one bits, a zero bit, the k low bits of v from
\* the most significant one down.
RiceCodeOf(v, k) ==
    [i \in 1..(v \div Pow2(k)) |-> 1] \o <<0>> \o [i \in 1..k |-> BitAt(v, k - i)]

RECURSIVE RiceCodesOf(_, _)
RiceCodesOf(input, k) ==
    IF input = <<>> THEN <<>> ELSE RiceCodeOf(Head(input), k) \o RiceCodesOf(Tail(input), k)

\* The stream of the layout: k in 4 bits, least significant first, then the codes.
RiceLayout(input, k) == [i \in 1..4 |-> BitAt(k, i - 1)] \o RiceCodesOf(input, k)

\* Bit p of the stream rice::easyEncode handed back.
RiceStreamBit(p) == BitAt(riceEnc.compressed[(p \div 8) + 1], p % 8)

RiceStreamIsLayout ==
    LET layout == RiceLayout(riceInput, riceEnc.KBits)
    IN  /\ ~riceEnc.crashed /\ ~riceEnc.null
        /\ riceEnc.compressedSizeBits = Len(layout)
        /\ Len(riceEnc.compressed) >= CeilDiv(Len(layout), 8)
        /\ \A p \in 0..(Len(layout) - 1) : RiceStreamBit(p) = layout[p + 1]

\* C27: the stream rice::easyEncode produces is the 4-bit k (least significant
\* bit first) followed, for each input byte v in order, by (v >> k) one bits, a
\* zero bit and the k low bits of v most significant first; each byte takes
\* computeCodeLength(v, k) bits, and compressedSizeBits is 4 plus the minimum
\* total of findBestKBits.
C27_RiceLayout ==
    ricePc \in {"encoded", "decoded"} =>
        /\ RiceStreamIsLayout
        /\ \A i \in 1..Len(riceInput) :
              Len(RiceCodeOf(riceInput[i], riceEnc.KBits))
                 = ComputeCodeLength(riceInput[i], riceEnc.KBits)
        /\ riceEnc.compressedSizeBits = 4 + riceEnc.minCompressedBitSize

(***************************************************************************)
(* The writer's growth.                                                    *)
(***************************************************************************)

\* The bytes a writer of `bytes` bytes has after it holds `bits` bits: it grows
\* by its granularity each time its last byte fills.
RECURSIVE GrownSize(_, _, _)
GrownSize(bytes, granularity, bits) ==
    IF bits < 8 * bytes THEN bytes ELSE GrownSize(bytes * granularity, granularity, bits)

\* A call appended bits to bsw, one of them filled its last allocated byte.
GrowthStep ==
    /\ ~bsw.dead /\ ~bsw.oob
    /\ bsw.bytesAllocated >= 1
    /\ bswCalls' = bswCalls + 1
    /\ bswReleased' = bswReleased
    /\ bsw.numBitsWritten < 8 * bsw.bytesAllocated
    /\ Len(bswBits') >= 8 * bsw.bytesAllocated

\* C28: when an appendBit fills the last allocated byte, bytesAllocated becomes
\* bytesAllocated * granularity (the configured value, 2 if less was asked for),
\* the bytes written before keep their values, every new byte is 0 until a bit
\* is written to it, and the counters are those of the bits appended: the
\* growth itself changes none of them.
C28_GrowthPolicy ==
    [][GrowthStep =>
          LET old  == bsw.bytesAllocated
              bits == Len(bswBits')
          IN  /\ bsw.granularity >= 2
              /\ bsw'.granularity = bsw.granularity
              /\ bsw'.bytesAllocated = GrownSize(old * bsw.granularity, bsw.granularity, bits)
              /\ Len(bsw'.stream) = bsw'.bytesAllocated
              /\ ~bsw'.oob /\ ~bsw'.dead
              /\ \A p \in 0..(bsw.numBitsWritten - 1) : StreamBit(bsw', p) = StreamBit(bsw, p)
              /\ \A p \in bsw.numBitsWritten..(bits - 1) : StreamBit(bsw', p) = bswBits'[p + 1]
              /\ \A p \in bits..(8 * bsw'.bytesAllocated - 1) : StreamBit(bsw', p) = 0
              /\ bsw'.numBitsWritten = bits
              /\ bsw'.currBytePos = bits \div 8
              /\ bsw'.nextBitPos = bits % 8]_vars

\* A writer of two bytes and granularity 3 has grown to six bytes in the middle
\* of its second call; the first two bytes hold the bits written before.
C28_Witness ==
    /\ ~bsw.dead /\ ~bsw.oob /\ ~bswReleased
    /\ bswCalls = 2
    /\ bsw.granularity = 3
    /\ bsw.bytesAllocated = 6
    /\ bsw.numBitsWritten = 18
    /\ bsw.currBytePos = 2 /\ bsw.nextBitPos = 2
    /\ bsw.stream[1] = 255
    /\ \A i \in 4..6 : bsw.stream[i] = 0

(***************************************************************************)
(* The LZW code widths.                                                    *)
(***************************************************************************)

\* C29: the width the decoder uses to read the i-th code equals the width the
\* encoder used to emit it, for every i, dictionary resets at 4096 entries
\* included; both widths stay in 9..12.
C29_WidthLockStep ==
    lzwPc = "decoded" =>
        /\ Len(lzwDec.widths) = Len(lzwEnc.widths)
        /\ \A i \in 1..Len(lzwEnc.widths) :
              /\ lzwEnc.widths[i] \in LzwStartBits..LzwMaxBits
              /\ i <= Len(lzwDec.widths) => lzwDec.widths[i] = lzwEnc.widths[i]

\* C30: RLE decode stays in bounds.  For every call of rle::easyDecode with
\* inSizeBytes > 0 and outSizeBytes > 0, no byte is stored at an output index
\* >= outSizeBytes and no byte is read at an input index >= inSizeBytes, also
\* when inSizeBytes is not a multiple of the packet size.
C30_RleDecodeInBounds ==
    (rlePc = "decoded" /\ rleInSize > 0 /\ rleDecSize > 0) =>
        /\ ~rleDec.oobWrite
        /\ rleDec.readEnd <= rleInSize

\* The two halves of C30, apart: the stores, and the reads.
C30_StoresInBounds ==
    (rlePc = "decoded" /\ rleInSize > 0 /\ rleDecSize > 0) => ~rleDec.oobWrite

C30_ReadsInBounds ==
    (rlePc = "decoded" /\ rleInSize > 0 /\ rleDecSize > 0) => rleDec.readEnd <= rleInSize

\* Reads stay in bounds when inSizeBytes is a multiple of the packet size.
C30_ReadsInBoundsWholePackets ==
    (rlePc = "decoded" /\ rleInSize % PacketSize(wordBytes) = 0) =>
        rleDec.readEnd <= rleInSize

=========================================================================
